---- MODULE Spec2Model ----
(***************************************************************************)
(* Battle Dinghy: the game lifecycle state machine (transition and its     *)
(* three handlers), driven three ways:                                     *)
(*   Spec      - sequences of events applied from createInitialState(),    *)
(*               each with an arbitrary context;                           *)
(*   SpecCall  - one call of the pure function on inputs drawn in Init,    *)
(*               followed by a second call on the same inputs;             *)
(*   SpecGame  - the orchestrator (joinGame, timers, executeSalvo) around  *)
(*               the persisted game and player records.                    *)
(* Dates are integers (milliseconds); a nullable field is <<>> (null) or   *)
(* <<v>>.                                                                  *)
(***************************************************************************)
EXTENDS Integers, Sequences, FiniteSets, TLC

VARIABLES
  state,      \* Spec: the GameState reached by the successful transitions so far
  config,     \* Spec, SpecGame: the game's GameConfig (immutable)
  out,        \* Spec: whether the last call of transition returned, and its effect types
  call,       \* SpecCall: the inputs (state, event, context) of the call
  pc,         \* SpecCall: "init", "called" (once), "recalled" (twice)
  result,     \* SpecCall: outcome of the first call
  again,      \* SpecCall: outcome of the second call on the same inputs
  clock,      \* SpecCall: Date.now() read by the most recent call; SpecGame: Date.now()
  game,       \* SpecGame: the games row (status, round, deadline, winners, cancelReason)
  playerRecords, \* SpecGame: the players rows, in joined_at order
  rounds,     \* SpecGame: the rounds rows, in insertion order
  timers,     \* SpecGame: pendingTimeouts and the pending setTimeout(triggerSalvo) callbacks
  settlements, \* SpecGame: the payout and refund requests handed to the payment service
  dispatched, \* SpecGame: the dispatchEvent made by the most recent handler, if any
  monitored,  \* SpecGame: whether the payment monitor has added a player
  inflight    \* SpecGame: per dispatchEvent still in its for loop, the effects not yet started

callVars == <<call, pc, result, again>>

gameVars == <<game, playerRecords, rounds, timers, settlements, dispatched, monitored, inflight>>

vars == <<state, config, out, call, pc, result, again, clock,
          game, playerRecords, rounds, timers, settlements, dispatched, monitored, inflight>>

----------------------------------------------------------------------------
(* Bounds *)

MaxCtx == 2          \* most players in a context snapshot
MaxRound == 2        \* largest maxRounds / round number drawn as an input
MaxNow == 1          \* wall-clock readings are 0..MaxNow

Wallets == {"p1", "p2", "p3"}

----------------------------------------------------------------------------
(* Values *)

Null == <<>>

Some(v) == <<v>>

Range(s) == {s[i] : i \in 1..Len(s)}

Distinct(s) == \A i, j \in 1..Len(s) : i # j => s[i] # s[j]

SeqsUpTo(S, n) == UNION {[1..k -> S] : k \in 0..n}

MapWallet(players) == [i \in 1..Len(players) |-> players[i].wallet]

NotEliminated(p) == ~p.isEliminated

Str(n) == ToString(n)

----------------------------------------------------------------------------
(* types.ts *)

GameConfig(maxPlayers, maxRounds) ==
  [entryFeeLamports |-> 100000000, maxPlayers |-> maxPlayers, shipSize |-> 2,
   shotsPerSalvo |-> 3, fillDeadlineMinutes |-> 30,
   repositionWindowMinutes |-> 5, maxRounds |-> maxRounds]

GameState(status, round, deadline, winners, cancelReason) ==
  [status |-> status, round |-> round, deadline |-> deadline,
   winners |-> winners, cancelReason |-> cancelReason]

PlayerState(wallet, position, hits, isEliminated, eliminatedRound) ==
  [wallet |-> wallet, position |-> position, hits |-> hits,
   isEliminated |-> isEliminated, eliminatedRound |-> eliminatedRound]

EventTypes ==
  {"PLAYER_JOINED", "DEADLINE_REACHED", "MAX_PLAYERS_REACHED", "SALVO_COMPLETE",
   "REPOSITION_SUBMITTED", "REPOSITION_TIMEOUT", "ADMIN_CANCEL", "ADMIN_FORCE_START"}

PlayerJoined(wallet, position) ==
  [type |-> "PLAYER_JOINED", wallet |-> wallet, position |-> position]

SalvoComplete(oreHash, survivors) ==
  [type |-> "SALVO_COMPLETE", oreHash |-> oreHash, survivors |-> survivors]

RepositionSubmitted(wallet, position) ==
  [type |-> "REPOSITION_SUBMITTED", wallet |-> wallet, position |-> position]

Plain(type) == [type |-> type]

NotifyPlayers(message) == [type |-> "NOTIFY_PLAYERS", message |-> message]

NotifyWallets(message, wallets) ==
  [type |-> "NOTIFY_PLAYERS", message |-> message, wallets |-> wallets]

ProcessPayouts(winners) == [type |-> "PROCESS_PAYOUTS", winners |-> winners]

ProcessRefunds(wallets) == [type |-> "PROCESS_REFUNDS", wallets |-> wallets]

ScheduleTimeout(durationMs, event) ==
  [type |-> "SCHEDULE_TIMEOUT", durationMs |-> durationMs, event |-> event]

PostTweet(content) == [type |-> "POST_TWEET", content |-> content]

TriggerSalvo == [type |-> "TRIGGER_SALVO"]

----------------------------------------------------------------------------
(* state-machine: transition and its handlers.  A call either returns      *)
(* {newState, sideEffects} or throws InvalidTransitionError.               *)

Return(newState, sideEffects) ==
  [ok |-> TRUE, newState |-> newState, sideEffects |-> sideEffects]

InvalidTransitionError(currentStatus, event) ==
  [ok |-> FALSE,
   error |-> [name |-> "InvalidTransitionError",
              currentStatus |-> currentStatus, event |-> event]]

UnknownStateError(status) ==
  [ok |-> FALSE, error |-> [name |-> "Error", status |-> status]]

createInitialState == GameState("waiting", 0, Null, <<>>, Null)

\* mutant: the first round is round 0
StartedState_RoundZero == GameState("active", 0, Null, <<>>, Null)

StartedState == GameState("active", 1, Null, <<>>, Null)

\* mutant: the salvo is triggered before the players are told
GameFull_SalvoFirst ==
  <<TriggerSalvo,
    NotifyPlayers("Game is full! Starting..."),
    PostTweet("Game starting! All players joined.")>>

GameFull ==
  <<NotifyPlayers("Game is full! Starting..."),
    PostTweet("Game starting! All players joined."),
    TriggerSalvo>>

ActivePlayers(players) == SelectSeq(players, NotEliminated)

\* mutant: the joiner is not counted
waitingPlayerJoined_NotCounted(s, event, cfg, players) ==
  LET joined == NotifyPlayers("Player joined! " \o Str(Len(players) + 1)
                              \o "/" \o Str(cfg.maxPlayers)) IN
  IF Len(players) >= cfg.maxPlayers
    THEN Return(StartedState, <<joined>> \o GameFull)
    ELSE Return(s, <<joined>>)

waitingPlayerJoined(s, event, cfg, players) ==
  LET joined == NotifyPlayers("Player joined! " \o Str(Len(players) + 1)
                              \o "/" \o Str(cfg.maxPlayers)) IN
  IF Len(players) + 1 >= cfg.maxPlayers
    THEN Return(StartedState, <<joined>> \o GameFull)
    ELSE Return(s, <<joined>>)

\* mutant: the game only starts with two players in the context
waitingMaxPlayersReached_NeedsTwo(s, event, cfg, players) ==
  IF Len(players) < 2 THEN InvalidTransitionError(s.status, event)
                      ELSE Return(StartedState, GameFull)

waitingMaxPlayersReached(s, event, cfg, players) == Return(StartedState, GameFull)

\* mutant: eliminated players are counted too
waitingDeadlineReached_CountAll(s, event, cfg, players) ==
  IF Len(players) < 2
    THEN Return(GameState("cancelled", 0, Null, <<>>, Some("insufficient_players")),
                <<ProcessRefunds(MapWallet(players)),
                  NotifyPlayers("Game cancelled - not enough players. Refunds processing.")>>)
    ELSE Return(StartedState,
                <<NotifyPlayers("Game starting with " \o Str(Len(players)) \o " players!"),
                  PostTweet("Game starting with " \o Str(Len(players)) \o " players!"),
                  TriggerSalvo>>)

waitingDeadlineReached(s, event, cfg, players) ==
  LET activePlayers == ActivePlayers(players) IN
  IF Len(activePlayers) < 2
    THEN Return(GameState("cancelled", 0, Null, <<>>, Some("insufficient_players")),
                <<ProcessRefunds(MapWallet(players)),
                  NotifyPlayers("Game cancelled - not enough players. Refunds processing.")>>)
    ELSE Return(StartedState,
                <<NotifyPlayers("Game starting with " \o Str(Len(activePlayers)) \o " players!"),
                  PostTweet("Game starting with " \o Str(Len(activePlayers)) \o " players!"),
                  TriggerSalvo>>)

\* mutant: eliminated players count toward the two that are needed
waitingAdminForceStart_CountAll(s, event, cfg, players) ==
  IF Len(players) < 2
    THEN InvalidTransitionError(s.status, event)
    ELSE Return(StartedState,
                <<NotifyPlayers("Admin started game with " \o Str(Len(players)) \o " players!"),
                  TriggerSalvo>>)

waitingAdminForceStart(s, event, cfg, players) ==
  LET activePlayers == ActivePlayers(players) IN
  IF Len(activePlayers) < 2
    THEN InvalidTransitionError(s.status, event)
    ELSE Return(StartedState,
                <<NotifyPlayers("Admin started game with " \o Str(Len(activePlayers)) \o " players!"),
                  TriggerSalvo>>)

waitingAdminCancel(s, event, cfg, players) ==
  Return(GameState("cancelled", 0, Null, <<>>, Some("admin_cancelled")),
         <<ProcessRefunds(MapWallet(players)),
           NotifyPlayers("Game cancelled by admin. Refunds processing.")>>)

\* mutant: an event the waiting game does not know is ignored
handleWaiting_IgnoreOthers(s, event, cfg, players) ==
  CASE event.type = "PLAYER_JOINED" -> waitingPlayerJoined(s, event, cfg, players)
    [] event.type = "MAX_PLAYERS_REACHED" -> waitingMaxPlayersReached(s, event, cfg, players)
    [] event.type = "DEADLINE_REACHED" -> waitingDeadlineReached(s, event, cfg, players)
    [] event.type = "ADMIN_FORCE_START" -> waitingAdminForceStart(s, event, cfg, players)
    [] event.type = "ADMIN_CANCEL" -> waitingAdminCancel(s, event, cfg, players)
    [] OTHER -> Return(s, <<>>)

handleWaiting(s, event, cfg, players) ==
  CASE event.type = "PLAYER_JOINED" -> waitingPlayerJoined(s, event, cfg, players)
    [] event.type = "MAX_PLAYERS_REACHED" -> waitingMaxPlayersReached(s, event, cfg, players)
    [] event.type = "DEADLINE_REACHED" -> waitingDeadlineReached(s, event, cfg, players)
    [] event.type = "ADMIN_FORCE_START" -> waitingAdminForceStart(s, event, cfg, players)
    [] event.type = "ADMIN_CANCEL" -> waitingAdminCancel(s, event, cfg, players)
    [] OTHER -> InvalidTransitionError(s.status, event)

\* mutant: only the players still afloat are kept
allEliminated_AfloatOnly(s, players) ==
  LET lastRoundSurvivors == MapWallet(SelectSeq(players, NotEliminated)) IN
  Return(GameState("complete", s.round, Null, lastRoundSurvivors, Null),
         <<ProcessPayouts(lastRoundSurvivors),
           NotifyPlayers("Game over! All ships sunk in final salvo. Pot split among "
                         \o Str(Len(lastRoundSurvivors)) \o " players."),
           PostTweet("Game complete! Pot split among "
                     \o Str(Len(lastRoundSurvivors)) \o " survivors.")>>)

\* survivors = []: the pot is split among the players sunk in this round
allEliminated(s, players) ==
  LET LastRound(p) == p.eliminatedRound = Some(s.round) \/ ~p.isEliminated
      lastRoundSurvivors == MapWallet(SelectSeq(players, LastRound))
  IN
  Return(GameState("complete", s.round, Null, lastRoundSurvivors, Null),
         <<ProcessPayouts(lastRoundSurvivors),
           NotifyPlayers("Game over! All ships sunk in final salvo. Pot split among "
                         \o Str(Len(lastRoundSurvivors)) \o " players."),
           PostTweet("Game complete! Pot split among "
                     \o Str(Len(lastRoundSurvivors)) \o " survivors.")>>)

\* mutant: the round is advanced on the way out
singleWinner_NextRound(s, survivors) ==
  Return(GameState("complete", s.round + 1, Null, survivors, Null),
         <<ProcessPayouts(survivors),
           NotifyPlayers("Game over! Winner: " \o survivors[1]),
           PostTweet("We have a winner! Congratulations!")>>)

singleWinner(s, survivors) ==
  Return(GameState("complete", s.round, Null, survivors, Null),
         <<ProcessPayouts(survivors),
           NotifyPlayers("Game over! Winner: " \o survivors[1]),
           PostTweet("We have a winner! Congratulations!")>>)

\* mutant: the survivors of the last round are told, but no payout is asked for
maxRoundsReached_NoPayout(s, survivors, cfg) ==
  Return(GameState("complete", s.round, Null, survivors, Null),
         <<NotifyPlayers("Max rounds reached! Pot split among "
                         \o Str(Len(survivors)) \o " survivors.")>>)

maxRoundsReached(s, survivors, cfg) ==
  Return(GameState("complete", s.round, Null, survivors, Null),
         <<ProcessPayouts(survivors),
           NotifyPlayers("Max rounds reached! Pot split among "
                         \o Str(Len(survivors)) \o " survivors."),
           PostTweet("Game complete after " \o Str(cfg.maxRounds) \o " rounds! "
                     \o Str(Len(survivors)) \o " survivors split the pot.")>>)

\* mutant: the window is added in seconds
goRepositioning_Seconds(s, survivors, cfg, now) ==
  LET repositionDeadline == now + cfg.repositionWindowMinutes * 60 IN
  Return(GameState("repositioning", s.round, Some(repositionDeadline), <<>>, Null),
         <<NotifyWallets("Round " \o Str(s.round) \o " complete! "
                         \o Str(Len(survivors)) \o " survivors. Reposition your ships!",
                         survivors),
           ScheduleTimeout(cfg.repositionWindowMinutes * 60 * 1000,
                           Plain("REPOSITION_TIMEOUT"))>>)

goRepositioning(s, survivors, cfg, now) ==
  LET repositionDeadline == now + cfg.repositionWindowMinutes * 60 * 1000 IN
  Return(GameState("repositioning", s.round, Some(repositionDeadline), <<>>, Null),
         <<NotifyWallets("Round " \o Str(s.round) \o " complete! "
                         \o Str(Len(survivors)) \o " survivors. Reposition your ships!",
                         survivors),
           ScheduleTimeout(cfg.repositionWindowMinutes * 60 * 1000,
                           Plain("REPOSITION_TIMEOUT"))>>)

\* mutant: the last round is played one round late
activeSalvoComplete_LateEnd(s, event, cfg, players, now) ==
  LET survivors == event.survivors IN
  IF Len(survivors) = 0 THEN allEliminated(s, players)
  ELSE IF Len(survivors) = 1 THEN singleWinner(s, survivors)
  ELSE IF s.round > cfg.maxRounds THEN maxRoundsReached(s, survivors, cfg)
  ELSE goRepositioning(s, survivors, cfg, now)

activeSalvoComplete(s, event, cfg, players, now) ==
  LET survivors == event.survivors IN
  IF Len(survivors) = 0 THEN allEliminated(s, players)
  ELSE IF Len(survivors) = 1 THEN singleWinner(s, survivors)
  ELSE IF s.round >= cfg.maxRounds THEN maxRoundsReached(s, survivors, cfg)
  ELSE goRepositioning(s, survivors, cfg, now)

\* mutant: only the players still afloat are refunded
repositioningAdminCancel_AfloatOnly(s, event, cfg, players) ==
  Return(GameState("cancelled", s.round, Null, <<>>, Some("admin_cancelled")),
         <<ProcessRefunds(MapWallet(SelectSeq(players, NotEliminated))),
           NotifyPlayers("Game cancelled by admin. Refunds processing.")>>)

repositioningAdminCancel(s, event, cfg, players) ==
  Return(GameState("cancelled", s.round, Null, <<>>, Some("admin_cancelled")),
         <<ProcessRefunds(MapWallet(players)),
           NotifyPlayers("Game cancelled by admin. Refunds processing.")>>)

\* mutant: an admin may cancel a game in play
handleActive_AdminCancel(s, event, cfg, players, now) ==
  CASE event.type = "SALVO_COMPLETE" -> activeSalvoComplete(s, event, cfg, players, now)
    [] event.type = "ADMIN_CANCEL" -> repositioningAdminCancel(s, event, cfg, players)
    [] OTHER -> InvalidTransitionError(s.status, event)

handleActive(s, event, cfg, players, now) ==
  CASE event.type = "SALVO_COMPLETE" -> activeSalvoComplete(s, event, cfg, players, now)
    [] OTHER -> InvalidTransitionError(s.status, event)

\* mutant: the reposition deadline is carried into the next round
NextRound_KeepsDeadline(s, message) ==
  Return(GameState("active", s.round + 1, s.deadline, <<>>, Null),
         <<NotifyPlayers(message \o Str(s.round + 1) \o " starting..."), TriggerSalvo>>)

NextRound(s, message) ==
  Return(GameState("active", s.round + 1, Null, <<>>, Null),
         <<NotifyPlayers(message \o Str(s.round + 1) \o " starting..."), TriggerSalvo>>)

\* mutant: the submitting player must have a recorded position as well
repositionSubmitted_SubmitterToo(s, event, cfg, players) ==
  LET activePlayers == ActivePlayers(players)
      allRepositioned ==
        \A i \in 1..Len(activePlayers) : Len(activePlayers[i].position) > 0
  IN
  IF allRepositioned
    THEN NextRound(s, "All players repositioned! Round ")
    ELSE Return(s, <<NotifyPlayers(event.wallet \o " has repositioned.")>>)

repositionSubmitted(s, event, cfg, players) ==
  LET activePlayers == ActivePlayers(players)
      allRepositioned ==
        \A i \in 1..Len(activePlayers) :
           \/ activePlayers[i].wallet = event.wallet
           \/ Len(activePlayers[i].position) > 0
  IN
  IF allRepositioned
    THEN NextRound(s, "All players repositioned! Round ")
    ELSE Return(s, <<NotifyPlayers(event.wallet \o " has repositioned.")>>)

\* mutant: the timeout leaves the window open
repositionTimeout_Stays(s, event, cfg, players) == Return(s, <<>>)

repositionTimeout(s, event, cfg, players) == NextRound(s, "Repositioning time up! Round ")

handleRepositioning(s, event, cfg, players) ==
  CASE event.type = "REPOSITION_SUBMITTED" -> repositionSubmitted(s, event, cfg, players)
    [] event.type = "REPOSITION_TIMEOUT" -> repositionTimeout(s, event, cfg, players)
    [] event.type = "ADMIN_CANCEL" -> repositioningAdminCancel(s, event, cfg, players)
    [] OTHER -> InvalidTransitionError(s.status, event)

\* mutant: a finished game still takes the events of the reposition window
transition_TerminalOpen(s, event, context, now) ==
  CASE s.status = "waiting" -> handleWaiting(s, event, context.config, context.players)
    [] s.status = "active" -> handleActive(s, event, context.config, context.players, now)
    [] OTHER -> handleRepositioning(s, event, context.config, context.players)

\* context = [config, players]; now is the value Date.now() returns during the call
transition(s, event, context, now) ==
  CASE s.status = "waiting" -> handleWaiting(s, event, context.config, context.players)
    [] s.status = "active" -> handleActive(s, event, context.config, context.players, now)
    [] s.status = "repositioning" ->
         handleRepositioning(s, event, context.config, context.players)
    [] s.status \in {"complete", "cancelled"} -> InvalidTransitionError(s.status, event)
    [] OTHER -> UnknownStateError(s.status)

canTransition(s, event, context, now) == transition(s, event, context, now).ok

----------------------------------------------------------------------------
(* Inputs *)

Nows == 0..MaxNow

Positions == {<<>>, <<0, 1>>}

Configs == {GameConfig(2, MaxRound), GameConfig(3, 1)}

\* a player still afloat (its position possibly not yet recorded), or one sunk in round r
PlayerStates ==
  {PlayerState(w, p, <<>>, FALSE, Null) : w \in Wallets, p \in Positions}
  \cup {PlayerState(w, <<0, 1>>, <<0, 1>>, TRUE, Some(r)) : w \in Wallets, r \in 1..MaxRound}

DistinctWallets(players) ==
  \A i, j \in 1..Len(players) : i # j => players[i].wallet # players[j].wallet

Contexts == {players \in SeqsUpTo(PlayerStates, MaxCtx) : DistinctWallets(players)}

SurvivorLists == {s \in SeqsUpTo(Wallets, Cardinality(Wallets)) : Distinct(s)}

Events ==
  {Plain(t) : t \in {"DEADLINE_REACHED", "MAX_PLAYERS_REACHED", "REPOSITION_TIMEOUT",
                     "ADMIN_CANCEL", "ADMIN_FORCE_START"}}
  \cup {PlayerJoined(w, <<0, 1>>) : w \in Wallets}
  \cup {RepositionSubmitted(w, <<5, 6>>) : w \in Wallets}
  \cup {SalvoComplete("hash", s) : s \in SurvivorLists}

NoResult == [ok |-> FALSE, error |-> [name |-> "none"]]

EffectTypes(r) == [i \in 1..Len(r.sideEffects) |-> r.sideEffects[i].type]

\* what the caller of a sequence keeps of a call: whether it returned, the name of
\* the error it threw, and the types of the effects it asked for, in order
Outcome(r) ==
  [ok |-> r.ok,
   error |-> IF r.ok THEN "" ELSE r.error.name,
   sideEffects |-> IF r.ok THEN [i \in 1..Len(r.sideEffects) |-> r.sideEffects[i].type]
                           ELSE <<>>]

NoOutcome == [ok |-> TRUE, error |-> "", sideEffects |-> <<>>]

\* the GameStates a call may be made on: every status, with the fields the
\* orchestrator stores for it (a waiting game carries its fill deadline)
CallStates ==
  {GameState("waiting", 0, d, <<>>, Null) : d \in {Null, Some(30 * 60 * 1000)}}
  \cup {GameState("active", r, Null, <<>>, Null) : r \in 1..MaxRound}
  \cup {GameState("repositioning", r, Some(5 * 60 * 1000), <<>>, Null) : r \in 1..MaxRound}
  \cup {GameState("complete", r, Null, w, Null) : r \in 1..MaxRound, w \in {<<"p1">>, <<"p2", "p1">>}}
  \cup {GameState("cancelled", 0, Null, <<>>, Some(c)) : c \in {"insufficient_players", "admin_cancelled"}}
  \cup {GameState("cancelled", r, Null, <<>>, Some("admin_cancelled")) : r \in 1..MaxRound}

\* the orchestrator's variables while no game is being run
NoTimers == [deadline |-> FALSE, reposition |-> FALSE, salvo |-> 0]

NoDispatch == [event |-> "", ok |-> TRUE, sideEffects |-> <<>>, started |-> <<>>]

NoGame ==
  /\ game = createInitialState
  /\ playerRecords = <<>>
  /\ rounds = <<>>
  /\ timers = NoTimers
  /\ settlements = <<>>
  /\ dispatched = NoDispatch
  /\ monitored = FALSE
  /\ inflight = <<>>

----------------------------------------------------------------------------
(* SpecCall: one call of transition, then a second call on the same inputs *)

NoCall == [state |-> createInitialState, event |-> Plain("DEADLINE_REACHED"),
           context |-> [config |-> GameConfig(2, 1), players |-> <<>>]]

InitCall ==
  /\ call \in [state : CallStates, event : Events,
               context : [config : Configs, players : Contexts]]
  /\ pc = "init"
  /\ result = NoResult
  /\ again = NoResult
  /\ clock = 0
  /\ state = createInitialState
  /\ config = GameConfig(2, 1)
  /\ out = NoOutcome
  /\ NoGame

Call ==
  /\ pc = "init"
  /\ \E now \in Nows :
       /\ clock' = now
       /\ result' = transition(call.state, call.event, call.context, now)
  /\ pc' = "called"
  /\ UNCHANGED <<call, again, state, config, out, gameVars>>

\* the same state, event and context handed to transition once more, later
Recall ==
  /\ pc = "called"
  /\ \E now \in Nows :
       /\ now >= clock
       /\ again' = transition(call.state, call.event, call.context, now)
  /\ pc' = "recalled"
  /\ UNCHANGED <<call, result, clock, state, config, out, gameVars>>

NextCall == Call \/ Recall

SpecCall == InitCall /\ [][NextCall]_vars

----------------------------------------------------------------------------
(* Spec: events applied one after the other from createInitialState().     *)
(* The caller keeps the state of a call that throws.                       *)

Init ==
  /\ state = createInitialState
  /\ config \in Configs
  /\ out = NoOutcome
  /\ call = NoCall
  /\ pc = "init"
  /\ result = NoResult
  /\ again = NoResult
  /\ clock = 0
  /\ NoGame

Apply(event) ==
  /\ \E players \in Contexts, now \in Nows :
       LET r == transition(state, event, [config |-> config, players |-> players], now) IN
       /\ out' = Outcome(r)
       /\ state' = IF r.ok THEN r.newState ELSE state
  /\ UNCHANGED <<config, callVars, clock, gameVars>>

OnPlayerJoined == \E w \in Wallets : Apply(PlayerJoined(w, <<0, 1>>))

OnMaxPlayersReached == Apply(Plain("MAX_PLAYERS_REACHED"))

OnDeadlineReached == Apply(Plain("DEADLINE_REACHED"))

OnAdminForceStart == Apply(Plain("ADMIN_FORCE_START"))

OnAdminCancel == Apply(Plain("ADMIN_CANCEL"))

OnSalvoComplete == \E s \in SurvivorLists : Apply(SalvoComplete("hash", s))

OnRepositionSubmitted == \E w \in Wallets : Apply(RepositionSubmitted(w, <<5, 6>>))

OnRepositionTimeout == Apply(Plain("REPOSITION_TIMEOUT"))

Next ==
  \/ OnPlayerJoined
  \/ OnMaxPlayersReached
  \/ OnDeadlineReached
  \/ OnAdminForceStart
  \/ OnAdminCancel
  \/ OnSalvoComplete
  \/ OnRepositionSubmitted
  \/ OnRepositionTimeout

Spec == Init /\ [][Next]_vars

----------------------------------------------------------------------------
(* SpecRun: the events of one game, delivered one after the other as in    *)
(* Spec, with a log of what was asked for: settlements holds the payout and *)
(* refund effects so far, each with the wallets of the context of its call, *)
(* and rounds the round of every SALVO_COMPLETE that was accepted.          *)
(* SpecFair adds the delivery of the timer and salvo events that setTimeout *)
(* gives.                                                                   *)

IsSettlement(effect) == effect.type \in {"PROCESS_PAYOUTS", "PROCESS_REFUNDS"}

\* the rows of a game at a call: some of the wallets in the order they joined,
\* each afloat at its position or sunk in round 1
RunContexts ==
  LET joined == <<"p1", "p2", "p3">>
      rank(w) == CHOOSE k \in 1..Len(joined) : joined[k] = w
      rows == {PlayerState(w, <<0, 1>>, <<>>, FALSE, Null) : w \in Wallets}
              \cup {PlayerState(w, <<0, 1>>, <<0, 1>>, TRUE, Some(1)) : w \in Wallets} IN
  {players \in SeqsUpTo(rows, MaxCtx) :
     \A i, j \in 1..Len(players) : i < j => rank(players[i].wallet) < rank(players[j].wallet)}

Deliver(event) ==
  /\ \E players \in RunContexts, now \in Nows :
       LET r == transition(state, event, [config |-> config, players |-> players], now)
           settled == IF r.ok THEN SelectSeq(r.sideEffects, IsSettlement) ELSE <<>> IN
       /\ out' = Outcome(r)
       /\ state' = IF r.ok THEN r.newState ELSE state
       /\ settlements' = settlements \o
                           [i \in 1..Len(settled) |->
                              [effect |-> settled[i], wallets |-> MapWallet(players)]]
       /\ rounds' = IF r.ok /\ event.type = "SALVO_COMPLETE"
                      THEN Append(rounds, state.round) ELSE rounds
  /\ UNCHANGED <<config, callVars, clock, game, playerRecords, timers, dispatched, monitored,
               inflight>>

DeliverDeadline == Deliver(Plain("DEADLINE_REACHED"))

DeliverSalvo == \E s \in SurvivorLists : Deliver(SalvoComplete("hash", s))

DeliverTimeout == Deliver(Plain("REPOSITION_TIMEOUT"))

NextRun == \E event \in Events : Deliver(event)

SpecRun == Init /\ [][NextRun]_vars

SpecFair ==
  SpecRun /\ WF_vars(DeliverDeadline) /\ WF_vars(DeliverSalvo) /\ WF_vars(DeliverTimeout)

----------------------------------------------------------------------------
(* placement: ship placement on the 5x5 grid *)

GRID_SIZE == 5

TOTAL_CELLS == 25

PlacementError(message) == [ok |-> FALSE, error |-> [name |-> "PlacementError", message |-> message]]

Sorted(s) == SortSeq(s, LAMBDA a, b : a < b)

\* mutant: the neighbour may be in the next row
isHorizontal_AnyRow(sorted) == \A i \in 2..Len(sorted) : sorted[i] = sorted[i - 1] + 1

\* sorted.every(...): each cell is the right-hand neighbour of the one before, in its row
isHorizontal(sorted) ==
  \A i \in 2..Len(sorted) :
    /\ sorted[i] \div GRID_SIZE = sorted[i - 1] \div GRID_SIZE
    /\ sorted[i] = sorted[i - 1] + 1

isVertical(sorted) == \A i \in 2..Len(sorted) : sorted[i] = sorted[i - 1] + GRID_SIZE

determineOrientation(sorted) ==
  IF isHorizontal(sorted) THEN Some("horizontal")
  ELSE IF isVertical(sorted) THEN Some("vertical")
  ELSE Null

validatePlacement(cells, shipSize) ==
  IF Len(cells) # shipSize
    THEN PlacementError("Ship size requires that many cells")
  ELSE IF \E i \in 1..Len(cells) : cells[i] < 0 \/ cells[i] >= TOTAL_CELLS
    THEN PlacementError("Invalid cell index")
  ELSE IF Cardinality(Range(cells)) # Len(cells)
    THEN PlacementError("Duplicate cells in placement")
  ELSE IF shipSize = 1
    THEN [ok |-> TRUE, cells |-> cells, orientation |-> "single"]
  ELSE LET sorted == Sorted(cells)
           orientation == determineOrientation(sorted) IN
       IF orientation = Null
         THEN PlacementError("Ship cells must be contiguous horizontally or vertically")
         ELSE [ok |-> TRUE, cells |-> sorted, orientation |-> orientation[1]]

----------------------------------------------------------------------------
(* repositioning: who may move a ship, and where to *)

canPlayerReposition(player) ==
  LET unhitCells == SelectSeq(player.position, LAMBDA cell : cell \notin Range(player.hits))
      hitCells == SelectSeq(player.position, LAMBDA cell : cell \in Range(player.hits)) IN
  IF player.isEliminated
    THEN [canReposition |-> FALSE, unhitCells |-> <<>>, hitCells |-> player.hits]
  ELSE IF Len(unhitCells) = 0
    THEN [canReposition |-> FALSE, unhitCells |-> <<>>, hitCells |-> hitCells]
  ELSE [canReposition |-> TRUE, unhitCells |-> unhitCells, hitCells |-> hitCells]

\* mutant: only the length of the new position is validated
validateRepositionMove_LengthOnly(oldPosition, newPosition, hits, shipSize) ==
  LET unhitCells == SelectSeq(oldPosition, LAMBDA cell : cell \notin Range(hits)) IN
  /\ Len(newPosition) = shipSize
  /\ Len(oldPosition) = Len(newPosition)
  /\ Len(unhitCells) # 0

validateRepositionMove(oldPosition, newPosition, hits, shipSize) ==
  LET unhitCells == SelectSeq(oldPosition, LAMBDA cell : cell \notin Range(hits)) IN
  /\ validatePlacement(newPosition, shipSize).ok
  /\ Len(newPosition) = shipSize
  /\ Len(oldPosition) = Len(newPosition)
  /\ Len(unhitCells) # 0

----------------------------------------------------------------------------
(* salvo: shots drawn from a hash of 64 hexadecimal characters, and their   *)
(* effect on the players.  A string is the sequence of its character codes *)
(* ('0'..'9' = 48..57, 'A'..'Z' = 65..90, 'a'..'z' = 97..122).             *)

HASH_LENGTH == 64

toLowerCase(str) ==
  [i \in 1..Len(str) |-> IF str[i] \in 65..90 THEN str[i] + 32 ELSE str[i]]

\* /^[a-f0-9]{64}$/.test(hash)
validHash(hash) ==
  Len(hash) = HASH_LENGTH /\ \A i \in 1..Len(hash) : hash[i] \in (48..57) \cup (97..102)

\* the value of the hexadecimal digit c, one of '0'..'9', 'a'..'f'
hexValue(c) == IF c <= 57 THEN c - 48 ELSE c - 87

\* actualChunk: the four digits at hashIndex % 64, wrapping to the start of the hash
actualChunk(hash, hashIndex) ==
  [k \in 1..4 |-> hash[(((hashIndex % HASH_LENGTH) + k - 1) % HASH_LENGTH) + 1]]

parseInt16(chunk) ==
  hexValue(chunk[1]) * 4096 + hexValue(chunk[2]) * 256 + hexValue(chunk[3]) * 16
  + hexValue(chunk[4])

\* mutant: the cell is taken without skipping the cells already shot at
findCell_NoSkip(used, targetIndex, cellIndex, skipped) == targetIndex

\* the inner while loop: walk cellIndex up from 0, counting the unused cells met
RECURSIVE findCell(_, _, _, _)
findCell(used, targetIndex, cellIndex, skipped) ==
  IF skipped < targetIndex \/ cellIndex \in used
    THEN LET skipped2 == IF cellIndex \notin used THEN skipped + 1 ELSE skipped
             cellIndex2 == IF skipped2 < targetIndex \/ cellIndex \in used
                             THEN cellIndex + 1 ELSE cellIndex IN
         findCell(used, targetIndex, cellIndex2, skipped2)
    ELSE cellIndex

\* the outer while loop
RECURSIVE drawShots(_, _, _, _, _)
drawShots(hash, count, hashIndex, shots, used) ==
  IF Len(shots) < count
    THEN LET value == parseInt16(actualChunk(hash, hashIndex))
             remaining == TOTAL_CELLS - Cardinality(used)
             targetIndex == value % remaining
             cellIndex == findCell(used, targetIndex, 0, 0) IN
         drawShots(hash, count, hashIndex + 4, Append(shots, cellIndex), used \cup {cellIndex})
    ELSE shots

\* mutant: a count of 0 is let through
generateShots_ZeroShots(oreHash, count) ==
  IF count < 0 \/ count > TOTAL_CELLS
    THEN [ok |-> FALSE, error |-> [name |-> "Error", message |-> "Invalid shot count"]]
  ELSE LET hash == toLowerCase(oreHash) IN
       IF ~validHash(hash)
         THEN [ok |-> FALSE, error |-> [name |-> "Error", message |-> "Invalid ORE hash"]]
         ELSE [ok |-> TRUE, shots |-> Sorted(drawShots(hash, count, 0, <<>>, {}))]

generateShots(oreHash, count) ==
  IF count < 1 \/ count > TOTAL_CELLS
    THEN [ok |-> FALSE, error |-> [name |-> "Error", message |-> "Invalid shot count"]]
  ELSE LET hash == toLowerCase(oreHash) IN
       IF ~validHash(hash)
         THEN [ok |-> FALSE, error |-> [name |-> "Error", message |-> "Invalid ORE hash"]]
         ELSE [ok |-> TRUE, shots |-> Sorted(drawShots(hash, count, 0, <<>>, {}))]

\* mutant: a cell hit in an earlier round is reported again
newHitsOf_Recount(player, shots) ==
  SelectSeq(player.position, LAMBDA cell : cell \in Range(shots))

\* the cells of player's ship that the shots hit and that were not hit before
newHitsOf(player, shots) ==
  SelectSeq(player.position,
            LAMBDA cell : cell \in Range(shots) /\ cell \notin Range(player.hits))

\* mutant: one hit more than the ship has cells is needed
nowEliminated_Late(player, shots) ==
  Len(player.hits) + Len(newHitsOf(player, shots)) > Len(player.position)

nowEliminated(player, shots) ==
  Len(player.hits) + Len(newHitsOf(player, shots)) >= Len(player.position)

\* mutant: eliminated players are shot at like the others
processSalvo_NoSkip(oreHash, shotCount, players) ==
  LET generated == generateShots(oreHash, shotCount) IN
  IF ~generated.ok THEN generated
  ELSE LET shots == generated.shots
           struck == {i \in 1..Len(players) : Len(newHitsOf(players[i], shots)) > 0} IN
       [ok |-> TRUE,
        shots |-> shots,
        hits |-> [w \in {players[i].wallet : i \in struck} |->
                    newHitsOf(CHOOSE q \in Range(players) : q.wallet = w, shots)],
        eliminations |-> MapWallet(SelectSeq(players, LAMBDA q : nowEliminated(q, shots))),
        survivors |-> MapWallet(SelectSeq(players, LAMBDA q : ~nowEliminated(q, shots)))]

\* hits maps the wallets with new hits to those hits
processSalvo(oreHash, shotCount, players) ==
  LET generated == generateShots(oreHash, shotCount) IN
  IF ~generated.ok THEN generated
  ELSE LET shots == generated.shots
           live == SelectSeq(players, NotEliminated)
           struck == {i \in 1..Len(live) : Len(newHitsOf(live[i], shots)) > 0} IN
       [ok |-> TRUE,
        shots |-> shots,
        hits |-> [w \in {live[i].wallet : i \in struck} |->
                    newHitsOf(CHOOSE q \in Range(live) : q.wallet = w, shots)],
        eliminations |-> MapWallet(SelectSeq(live, LAMBDA q : nowEliminated(q, shots))),
        survivors |-> MapWallet(SelectSeq(live, LAMBDA q : ~nowEliminated(q, shots)))]

----------------------------------------------------------------------------
(* SpecGame: one game run by the game service.  Each action is one request *)
(* handler or timer callback, from its start to the first await at which   *)
(* another handler can run: in dispatchEvent that is the for loop over the *)
(* effects, which ResumeEffects takes up again.                            *)

\* the character of the hexadecimal digit d, in lower case as toString(16) gives it
hexChar(d) == IF d < 10 THEN 48 + d ELSE 87 + d

Hex4(v) == <<hexChar(v \div 4096), hexChar((v \div 256) % 16), hexChar((v \div 16) % 16),
             hexChar(v % 16)>>

\* the hash whose 16 four-digit chunks are a, b, c and then c again and again
HashOf(a, b, c) == Hex4(a) \o Hex4(b) \o [i \in 1..(HASH_LENGTH - 8) |-> Hex4(c)[((i - 1) % 4) + 1]]

\* hashes whose first three shots are 0 1 2, 5 6 7 and 0 5 10
OreHashes == {HashOf(0, 0, 0), HashOf(6, 6, 6), HashOf(0, 5, 9)}

Placements == {<<0, 1>>, <<5, 6>>}

Moves == Placements \cup {<<1, 2>>}

\* the cells of a reposition request: the moves, a run that wraps from row A to
\* row B, a ship of one cell, and a cell off the grid
RepositionRequests == Moves \cup {<<4, 5>>, <<0>>, <<24, 25>>}

\* a players row as inserted by addPlayer: no hits, not eliminated (column defaults)
PlayerRecord(wallet, position) == PlayerState(wallet, position, <<>>, FALSE, Null)

\* a rounds row
RoundRecord(roundNumber, oreHash, shots, eliminations) ==
  [roundNumber |-> roundNumber, oreHash |-> oreHash, shots |-> shots,
   eliminations |-> eliminations]

Joined(wallet) == \E i \in 1..Len(playerRecords) : playerRecords[i].wallet = wallet

getPlayer(wallet) == CHOOSE q \in Range(playerRecords) : q.wallet = wallet

\* addPlayer's checks, inside its transaction
canAddPlayer(wallet) ==
  /\ game.status = "waiting"
  /\ Len(playerRecords) < config.maxPlayers
  /\ ~Joined(wallet)

\* executeEffect, as far as it touches the service's own state
executeEffect(tm, effect) ==
  CASE effect.type = "TRIGGER_SALVO" -> [tm EXCEPT !.salvo = @ + 1]
    [] effect.type = "SCHEDULE_TIMEOUT" -> [tm EXCEPT !.reposition = TRUE]
    [] OTHER -> tm

\* mutant: the last effect of the list is started first
RECURSIVE executeEffects_Backwards(_, _)
executeEffects_Backwards(ex, sideEffects) ==
  IF sideEffects = <<>> THEN ex
  ELSE LET effect == sideEffects[Len(sideEffects)] IN
       executeEffects_Backwards([timers |-> executeEffect(ex.timers, effect),
                                 started |-> Append(ex.started, effect.type)],
                                SubSeq(sideEffects, 1, Len(sideEffects) - 1))

\* the for loop of dispatchEvent: each effect is awaited before the next one is
\* started; ex holds the timers and the types of the effects started so far
RECURSIVE executeEffects(_, _)
executeEffects(ex, sideEffects) ==
  IF sideEffects = <<>> THEN ex
  ELSE LET effect == Head(sideEffects) IN
       executeEffects([timers |-> executeEffect(ex.timers, effect),
                       started |-> Append(ex.started, effect.type)],
                      Tail(sideEffects))

\* the processPayouts / processRefunds calls among the effects, in order
Requests(sideEffects) ==
  LET money == SelectSeq(sideEffects,
                         LAMBDA e : e.type \in {"PROCESS_PAYOUTS", "PROCESS_REFUNDS"}) IN
  [i \in 1..Len(money) |->
     [type |-> money[i].type,
      wallets |-> IF money[i].type = "PROCESS_PAYOUTS" THEN money[i].winners
                                                       ELSE money[i].wallets]]

\* whether starting the effect changes what the service holds: a timer, a
\* pending callback, a request to the payment service
touchesService(effect) ==
  effect.type \in {"TRIGGER_SALVO", "SCHEDULE_TIMEOUT", "PROCESS_PAYOUTS", "PROCESS_REFUNDS"}

\* the effects the for loop starts before another handler's write can be seen by
\* one of them: the first of the list, and after it those that touch nothing of
\* the service; the next effect that does is started after an await
RECURSIVE turn(_)
turn(sideEffects) ==
  IF sideEffects = <<>> THEN 0
  ELSE LET rest == Tail(sideEffects) IN
       IF rest = <<>> \/ touchesService(Head(rest)) THEN 1 ELSE 1 + turn(rest)

\* mutant: when transition throws, the effects of entering a round are run all the same
dispatchEvent_EffectsOnThrow(event, rows, tm) ==
  LET r == transition(game, event, [config |-> config, players |-> rows], clock) IN
  IF r.ok
    THEN LET n == turn(r.sideEffects)
             now == SubSeq(r.sideEffects, 1, n)
             ex == executeEffects([timers |-> tm, started |-> <<>>], now) IN
         /\ game' = r.newState
         /\ timers' = ex.timers
         /\ settlements' = settlements \o Requests(now)
         /\ dispatched' = [event |-> event.type, ok |-> TRUE,
                           sideEffects |-> EffectTypes(r), started |-> ex.started]
         /\ inflight' = IF n < Len(r.sideEffects)
                          THEN Append(inflight, SubSeq(r.sideEffects, n + 1, Len(r.sideEffects)))
                          ELSE inflight
    ELSE /\ game' = game
         /\ timers' = executeEffect(tm, TriggerSalvo)
         /\ settlements' = settlements
         /\ dispatched' = [event |-> event.type, ok |-> FALSE,
                           sideEffects |-> <<>>, started |-> <<>>]
         /\ inflight' = inflight

\* dispatchEvent on the rows as they stand (rows) and the timers as they stand (tm),
\* up to the first await of its for loop after which an effect touches the service;
\* when transition throws nothing is saved and no effect runs
dispatchEvent(event, rows, tm) ==
  LET r == transition(game, event, [config |-> config, players |-> rows], clock) IN
  IF r.ok
    THEN LET n == turn(r.sideEffects)
             now == SubSeq(r.sideEffects, 1, n)
             ex == executeEffects([timers |-> tm, started |-> <<>>], now) IN
         /\ game' = r.newState
         /\ timers' = ex.timers
         /\ settlements' = settlements \o Requests(now)
         /\ dispatched' = [event |-> event.type, ok |-> TRUE,
                           sideEffects |-> EffectTypes(r), started |-> ex.started]
         /\ inflight' = IF n < Len(r.sideEffects)
                          THEN Append(inflight, SubSeq(r.sideEffects, n + 1, Len(r.sideEffects)))
                          ELSE inflight
    ELSE /\ game' = game
         /\ timers' = tm
         /\ settlements' = settlements
         /\ dispatched' = [event |-> event.type, ok |-> FALSE,
                           sideEffects |-> <<>>, started |-> <<>>]
         /\ inflight' = inflight

\* a handler that returns without dispatching
noDispatch(tm) ==
  /\ game' = game
  /\ timers' = tm
  /\ settlements' = settlements
  /\ dispatched' = NoDispatch
  /\ inflight' = inflight

idleVars == <<state, out, callVars, config>>

\* the configurations of the games played: those of the state machine's calls
\* and a three-player game of two rounds
GameConfigs == Configs \cup {GameConfig(3, 2)}

\* createGame: the new row is waiting, round 0, with the fill deadline; the
\* deadline check is scheduled
InitGame ==
  /\ clock = 0
  /\ config \in GameConfigs
  /\ game = GameState("waiting", 0, Some(clock + config.fillDeadlineMinutes * 60 * 1000),
                      <<>>, Null)
  /\ playerRecords = <<>>
  /\ rounds = <<>>
  /\ timers = [deadline |-> TRUE, reposition |-> FALSE, salvo |-> 0]
  /\ settlements = <<>>
  /\ dispatched = NoDispatch
  /\ monitored = FALSE
  /\ inflight = <<>>
  /\ state = createInitialState
  /\ out = NoOutcome
  /\ call = NoCall
  /\ pc = "init"
  /\ result = NoResult
  /\ again = NoResult

\* POST /join, then joinGame: the row is added first, then the event is dispatched
JoinGame(wallet, cells) ==
  /\ game.status = "waiting"
  /\ validatePlacement(cells, config.shipSize).ok
  /\ canAddPlayer(wallet)
  /\ LET rows == Append(playerRecords, PlayerRecord(wallet, cells)) IN
     /\ playerRecords' = rows
     /\ IF Len(rows) >= config.maxPlayers
          THEN dispatchEvent(Plain("MAX_PLAYERS_REACHED"), rows, timers)
          ELSE dispatchEvent(PlayerJoined(wallet, cells), rows, timers)
  /\ UNCHANGED <<rounds, monitored, clock, idleVars>>

\* the payment monitor's onPlayerJoined: the row is added, nothing is dispatched
PaymentJoin(wallet, cells) ==
  /\ ~Joined(wallet)
  /\ canAddPlayer(wallet)
  /\ playerRecords' = Append(playerRecords, PlayerRecord(wallet, cells))
  /\ monitored' = TRUE
  /\ noDispatch(timers)
  /\ UNCHANGED <<rounds, clock, idleVars>>

\* mutant: the callback dispatches whatever the game's status has become
DeadlineCheck_AnyStatus ==
  /\ timers.deadline
  /\ dispatchEvent(Plain("DEADLINE_REACHED"), playerRecords, [timers EXCEPT !.deadline = FALSE])
  /\ UNCHANGED <<playerRecords, rounds, monitored, clock, idleVars>>

\* the callback of scheduleDeadlineCheck
DeadlineCheck ==
  /\ timers.deadline
  /\ LET tm == [timers EXCEPT !.deadline = FALSE] IN
     IF game.status = "waiting"
       THEN dispatchEvent(Plain("DEADLINE_REACHED"), playerRecords, tm)
       ELSE noDispatch(tm)
  /\ UNCHANGED <<playerRecords, rounds, monitored, clock, idleVars>>

\* POST /force-start, then forceStartGame
ForceStartGame ==
  /\ game.status = "waiting"
  /\ Len(playerRecords) >= 2
  /\ dispatchEvent(Plain("ADMIN_FORCE_START"), playerRecords, timers)
  /\ UNCHANGED <<playerRecords, rounds, monitored, clock, idleVars>>

\* POST /cancel, then cancelGame
CancelGame ==
  /\ game.status \in {"waiting", "repositioning"}
  /\ dispatchEvent(Plain("ADMIN_CANCEL"), playerRecords, timers)
  /\ UNCHANGED <<playerRecords, rounds, monitored, clock, idleVars>>

\* mutant: the hits of the round replace the hits recorded before
afterSalvo_OnlyNew(rows, salvo, round) ==
  [i \in 1..Len(rows) |->
     LET q == rows[i] IN
     [q EXCEPT !.hits = IF q.wallet \in DOMAIN salvo.hits THEN salvo.hits[q.wallet] ELSE @,
               !.isEliminated = IF q.wallet \in Range(salvo.eliminations) THEN TRUE ELSE @,
               !.eliminatedRound = IF q.wallet \in Range(salvo.eliminations)
                                     THEN Some(round) ELSE @]]

\* mutant: the round of an elimination is not recorded
afterSalvo_NoRound(rows, salvo, round) ==
  [i \in 1..Len(rows) |->
     LET q == rows[i] IN
     [q EXCEPT !.hits = IF q.wallet \in DOMAIN salvo.hits THEN @ \o salvo.hits[q.wallet] ELSE @,
               !.isEliminated = IF q.wallet \in Range(salvo.eliminations) THEN TRUE ELSE @]]

\* mutant: the hits are recorded, the eliminations are not
afterSalvo_HitsOnly(rows, salvo, round) ==
  [i \in 1..Len(rows) |->
     LET q == rows[i] IN
     [q EXCEPT !.hits = IF q.wallet \in DOMAIN salvo.hits THEN @ \o salvo.hits[q.wallet] ELSE @]]

\* the rows after executeSalvo's updatePlayerHits and eliminatePlayer
afterSalvo(rows, salvo, round) ==
  [i \in 1..Len(rows) |->
     LET q == rows[i] IN
     [q EXCEPT !.hits = IF q.wallet \in DOMAIN salvo.hits THEN @ \o salvo.hits[q.wallet] ELSE @,
               !.isEliminated = IF q.wallet \in Range(salvo.eliminations) THEN TRUE ELSE @,
               !.eliminatedRound = IF q.wallet \in Range(salvo.eliminations)
                                     THEN Some(round) ELSE @]]

\* the callback of setTimeout(triggerSalvo): executeSalvo with a fresh mock hash
ExecuteSalvo(oreHash) ==
  /\ timers.salvo > 0
  /\ LET tm == [timers EXCEPT !.salvo = @ - 1]
         salvo == processSalvo(oreHash, config.shotsPerSalvo, ActivePlayers(playerRecords)) IN
     IF game.status # "active" \/ ~salvo.ok
       THEN noDispatch(tm) /\ UNCHANGED <<playerRecords, rounds>>
       ELSE LET rows == afterSalvo(playerRecords, salvo, game.round) IN
            /\ playerRecords' = rows
            /\ rounds' = Append(rounds, RoundRecord(game.round, oreHash, salvo.shots,
                                                    salvo.eliminations))
            /\ dispatchEvent(SalvoComplete(oreHash, salvo.survivors), rows, tm)
  /\ UNCHANGED <<monitored, clock, idleVars>>

\* POST /reposition up to its call of submitReposition, and submitReposition's
\* own checks: validateReposition, the game's status, the player's row,
\* canPlayerReposition, validateRepositionMove, isEliminated
repositionAccepted(wallet, cells) ==
  /\ \A k \in 1..Len(cells) : cells[k] \in 0..(TOTAL_CELLS - 1)
  /\ game.status = "repositioning"
  /\ Joined(wallet)
  /\ canPlayerReposition(getPlayer(wallet)).canReposition
  /\ validateRepositionMove(getPlayer(wallet).position, cells, getPlayer(wallet).hits,
                            config.shipSize)
  /\ ~getPlayer(wallet).isEliminated

\* POST /reposition: an accepted request replaces the row's position with the
\* cells as they were sent; a rejected one is answered with an error and writes
\* nothing
SubmitReposition(wallet, cells) ==
  /\ IF repositionAccepted(wallet, cells)
       THEN playerRecords' = [i \in 1..Len(playerRecords) |->
                                IF playerRecords[i].wallet = wallet
                                  THEN [playerRecords[i] EXCEPT !.position = cells]
                                  ELSE playerRecords[i]]
       ELSE playerRecords' = playerRecords
  /\ noDispatch(timers)
  /\ UNCHANGED <<rounds, monitored, clock, idleVars>>

\* mutant: the timeout wipes the positions that were not changed in the window
RepositionTimeout_ClearPositions ==
  /\ timers.reposition
  /\ LET tm == [timers EXCEPT !.reposition = FALSE] IN
     IF game.status = "repositioning"
       THEN dispatchEvent(Plain("REPOSITION_TIMEOUT"), playerRecords, tm)
       ELSE noDispatch(tm)
  /\ playerRecords' = [i \in 1..Len(playerRecords) |->
                         [playerRecords[i] EXCEPT !.position = <<>>]]
  /\ UNCHANGED <<rounds, monitored, clock, idleVars>>

\* the callback of scheduleRepositionTimeout
RepositionTimeout ==
  /\ timers.reposition
  /\ LET tm == [timers EXCEPT !.reposition = FALSE] IN
     IF game.status = "repositioning"
       THEN dispatchEvent(Plain("REPOSITION_TIMEOUT"), playerRecords, tm)
       ELSE noDispatch(tm)
  /\ UNCHANGED <<playerRecords, rounds, monitored, clock, idleVars>>

\* whether the k-th dispatchEvent in its loop is the one recorded in dispatched
lastDispatch(k) ==
  /\ k = Len(inflight)
  /\ dispatched.ok
  /\ dispatched.started \o [i \in 1..Len(inflight[k]) |-> inflight[k][i].type]
       = dispatched.sideEffects

\* the for loop of the k-th dispatchEvent in its loop goes on after an await:
\* the next effects are started, whatever other handlers have written since
ResumeEffects(k) ==
  /\ k \in 1..Len(inflight)
  /\ LET rest == inflight[k]
         n == turn(rest)
         ex == executeEffects([timers |-> timers,
                               started |-> IF lastDispatch(k) THEN dispatched.started ELSE <<>>],
                              SubSeq(rest, 1, n)) IN
     /\ timers' = ex.timers
     /\ settlements' = settlements \o Requests(SubSeq(rest, 1, n))
     /\ dispatched' = IF lastDispatch(k) THEN [dispatched EXCEPT !.started = ex.started]
                                         ELSE dispatched
     /\ inflight' = IF n < Len(rest)
                      THEN [inflight EXCEPT ![k] = SubSeq(rest, n + 1, Len(rest))]
                      ELSE [i \in 1..(Len(inflight) - 1) |->
                              IF i < k THEN inflight[i] ELSE inflight[i + 1]]
  /\ UNCHANGED <<game, playerRecords, rounds, monitored, clock, idleVars>>

\* time passes
Tick ==
  /\ clock < MaxNow
  /\ clock' = clock + 1
  /\ UNCHANGED <<gameVars, idleVars>>

OnJoinGame == \E w \in Wallets, cells \in Placements : JoinGame(w, cells)

OnPaymentJoin == \E w \in Wallets, cells \in Placements : PaymentJoin(w, cells)

OnExecuteSalvo == \E oreHash \in OreHashes : ExecuteSalvo(oreHash)

OnResumeEffects == \E k \in 1..Len(inflight) : ResumeEffects(k)

\* the requests of a state: each accepted one, and the rejected ones, which all
\* take the same step
OnSubmitReposition ==
  LET Rejected == {r \in Wallets \X RepositionRequests : ~repositionAccepted(r[1], r[2])} IN
  \/ \E w \in Wallets, cells \in RepositionRequests :
       repositionAccepted(w, cells) /\ SubmitReposition(w, cells)
  \/ Rejected # {} /\ (LET r == CHOOSE r \in Rejected : TRUE IN SubmitReposition(r[1], r[2]))

NextGame ==
  \/ OnJoinGame
  \/ OnPaymentJoin
  \/ DeadlineCheck
  \/ ForceStartGame
  \/ CancelGame
  \/ OnExecuteSalvo
  \/ OnSubmitReposition
  \/ RepositionTimeout
  \/ OnResumeEffects
  \/ Tick

SpecGame == InitGame /\ [][NextGame]_vars

----------------------------------------------------------------------------
(* SpecService: the same game with the service's forceStartGame and        *)
(* cancelGame called at any time, without the checks the admin routes make *)
(* before calling them, so that transition can throw inside dispatchEvent. *)
(* The players keep the positions they joined with.                        *)

\* forceStartGame, whatever the game's status and number of players
forceStartGame ==
  /\ dispatchEvent(Plain("ADMIN_FORCE_START"), playerRecords, timers)
  /\ UNCHANGED <<playerRecords, rounds, monitored, clock, idleVars>>

\* cancelGame, whatever the game's status
cancelGame ==
  /\ dispatchEvent(Plain("ADMIN_CANCEL"), playerRecords, timers)
  /\ UNCHANGED <<playerRecords, rounds, monitored, clock, idleVars>>

NextService ==
  \/ OnJoinGame
  \/ OnPaymentJoin
  \/ DeadlineCheck
  \/ forceStartGame
  \/ cancelGame
  \/ OnExecuteSalvo
  \/ RepositionTimeout
  \/ OnResumeEffects
  \/ Tick

SpecService == InitGame /\ [][NextService]_vars

----------------------------------------------------------------------------
(* SpecShots: one call of generateShots on a seed and a count drawn in     *)
(* Init, then a second call on the same seed and count                     *)

\* 2-byte chunk values: the ends of the range, and the residues 0, 1, 24 mod 25
ChunkValues == {0, 1, 24, 25, 4660, 65535}

Seeds == {HashOf(a, b, c) : a, b, c \in ChunkValues}

InitShots ==
  /\ call \in [oreHash : Seeds, count : 1..TOTAL_CELLS]
  /\ pc = "init"
  /\ result = NoResult
  /\ again = NoResult
  /\ clock = 0
  /\ state = createInitialState
  /\ config = GameConfig(2, 1)
  /\ out = NoOutcome
  /\ NoGame

Generate ==
  /\ pc = "init"
  /\ result' = generateShots(call.oreHash, call.count)
  /\ pc' = "called"
  /\ UNCHANGED <<call, again, clock, state, config, out, gameVars>>

Regenerate ==
  /\ pc = "called"
  /\ again' = generateShots(call.oreHash, call.count)
  /\ pc' = "recalled"
  /\ UNCHANGED <<call, result, clock, state, config, out, gameVars>>

NextShots == Generate \/ Regenerate

SpecShots == InitShots /\ [][NextShots]_vars

----------------------------------------------------------------------------
(* SpecSalvo: one call of processSalvo on a hash, a shot count and players *)
(* drawn in Init                                                           *)

toUpperCase(str) ==
  [i \in 1..Len(str) |-> IF str[i] \in 97..122 THEN str[i] - 32 ELSE str[i]]

\* hashes that pass the test, one of them in upper case
ValidHashes == {HashOf(0, 0, 0), HashOf(0, 5, 9), toUpperCase(HashOf(43981, 6, 6))}

\* 63 characters, 65 characters, a 'g' among 64, the empty string
InvalidHashes ==
  {SubSeq(HashOf(0, 0, 0), 1, HASH_LENGTH - 1),
   HashOf(0, 0, 0) \o <<48>>,
   [HashOf(0, 0, 0) EXCEPT ![1] = 103],
   <<>>}

ShotCounts == {-1, 0, 1, 3, TOTAL_CELLS, TOTAL_CELLS + 1}

\* afloat and untouched; afloat with one cell hit; afloat on a new position
\* with a hit left from the old one; afloat elsewhere; sunk in round 1
SalvoPlayers ==
  UNION {{PlayerState(w, <<0, 1>>, <<>>, FALSE, Null),
          PlayerState(w, <<0, 1>>, <<0>>, FALSE, Null),
          PlayerState(w, <<5, 6>>, <<0>>, FALSE, Null),
          PlayerState(w, <<10, 11>>, <<>>, FALSE, Null),
          PlayerState(w, <<0, 1>>, <<0, 1>>, TRUE, Some(1))} : w \in Wallets}

SalvoInputs == {players \in SeqsUpTo(SalvoPlayers, MaxCtx) : DistinctWallets(players)}

InitSalvo ==
  /\ call \in [oreHash : ValidHashes \cup InvalidHashes, shotCount : ShotCounts,
               players : SalvoInputs]
  /\ pc = "init"
  /\ result = NoResult
  /\ again = NoResult
  /\ clock = 0
  /\ state = createInitialState
  /\ config = GameConfig(2, 1)
  /\ out = NoOutcome
  /\ NoGame

Process ==
  /\ pc = "init"
  /\ result' = processSalvo(call.oreHash, call.shotCount, call.players)
  /\ pc' = "called"
  /\ UNCHANGED <<call, again, clock, state, config, out, gameVars>>

NextSalvo == Process

SpecSalvo == InitSalvo /\ [][NextSalvo]_vars

----------------------------------------------------------------------------
(* placement: cell labels and the placements offered from a cell, with the  *)
(* specification of the calls of the placement functions.  A label is the   *)
(* sequence of its character codes.                                         *)

\* mutant: the column is printed from 0
getCellLabel_ZeroBased(cell) ==
  LET row == cell \div GRID_SIZE
      col == cell % GRID_SIZE IN
  <<65 + row, 48 + col>>

\* String.fromCharCode(65 + row) followed by the decimal digit of col + 1
getCellLabel(cell) ==
  LET row == cell \div GRID_SIZE
      col == cell % GRID_SIZE IN
  <<65 + row, 48 + (col + 1)>>

\* label.toUpperCase().match(/^([A-E])([1-5])$/), then row * GRID_SIZE + col
parseCellLabel(label) ==
  LET upper == toUpperCase(label) IN
  IF ~(Len(upper) = 2 /\ upper[1] \in 65..69 /\ upper[2] \in 49..53)
    THEN PlacementError("Invalid cell label")
    ELSE LET row == upper[1] - 65
             col == (upper[2] - 48) - 1 IN
         [ok |-> TRUE, cell |-> row * GRID_SIZE + col]

\* placements.filter with the set of keys seen: the first of equal sequences stays
RECURSIVE dedupe(_, _)
dedupe(placements, kept) ==
  IF placements = <<>> THEN kept
  ELSE dedupe(Tail(placements),
              IF Head(placements) \in Range(kept) THEN kept
              ELSE Append(kept, Head(placements)))

\* mutant: the extension to the left needs one more column than it uses
getValidPlacements_ShortLeft(startCell, shipSize) ==
  LET row == startCell \div GRID_SIZE
      col == startCell % GRID_SIZE
      right == IF col + shipSize <= GRID_SIZE
                 THEN <<[i \in 1..shipSize |-> startCell + (i - 1)]>> ELSE <<>>
      left == IF col - shipSize >= 0
                THEN <<Sorted([i \in 1..shipSize |-> startCell - (i - 1)])>> ELSE <<>>
      down == IF row + shipSize <= GRID_SIZE
                THEN <<[i \in 1..shipSize |-> startCell + (i - 1) * GRID_SIZE]>> ELSE <<>>
      up == IF row - shipSize + 1 >= 0
              THEN <<Sorted([i \in 1..shipSize |-> startCell - (i - 1) * GRID_SIZE])>>
              ELSE <<>> IN
  IF shipSize = 1 THEN <<<<startCell>>>>
  ELSE dedupe(right \o left \o down \o up, <<>>)

getValidPlacements(startCell, shipSize) ==
  LET row == startCell \div GRID_SIZE
      col == startCell % GRID_SIZE
      right == IF col + shipSize <= GRID_SIZE
                 THEN <<[i \in 1..shipSize |-> startCell + (i - 1)]>> ELSE <<>>
      left == IF col - shipSize + 1 >= 0
                THEN <<Sorted([i \in 1..shipSize |-> startCell - (i - 1)])>> ELSE <<>>
      down == IF row + shipSize <= GRID_SIZE
                THEN <<[i \in 1..shipSize |-> startCell + (i - 1) * GRID_SIZE]>> ELSE <<>>
      up == IF row - shipSize + 1 >= 0
              THEN <<Sorted([i \in 1..shipSize |-> startCell - (i - 1) * GRID_SIZE])>>
              ELSE <<>> IN
  IF shipSize = 1 THEN <<<<startCell>>>>
  ELSE dedupe(right \o left \o down \o up, <<>>)

\* the longest cells argument and the longest label of a call
MaxCells == 3

MaxLabel == 2

\* the cells of the grid
CellIndices == 0..(TOTAL_CELLS - 1)

\* the calls: validatePlacement with numbers of the grid and one off either end,
\* parseCellLabel with the characters '0'..'6', '@'..'F' and '`'..'f', and the
\* other two with a cell of the grid; the ship sizes are 1, 2 and 3
PlacementCalls ==
  [op : {"validatePlacement"}, cells : SeqsUpTo(-1..TOTAL_CELLS, MaxCells), shipSize : 1..3]
  \cup [op : {"getCellLabel"}, cell : CellIndices]
  \cup [op : {"parseCellLabel"},
         label : SeqsUpTo((48..54) \cup (64..70) \cup (96..102), MaxLabel)]
  \cup [op : {"getValidPlacements"}, startCell : CellIndices, shipSize : 1..3]

InitPlacement ==
  /\ call \in PlacementCalls
  /\ pc = "init"
  /\ result = NoResult
  /\ again = NoResult
  /\ clock = 0
  /\ state = createInitialState
  /\ config = GameConfig(2, 1)
  /\ out = NoOutcome
  /\ NoGame

Validate ==
  /\ pc = "init"
  /\ call.op = "validatePlacement"
  /\ result' = validatePlacement(call.cells, call.shipSize)
  /\ pc' = "called"
  /\ UNCHANGED <<call, again, clock, state, config, out, gameVars>>

Label ==
  /\ pc = "init"
  /\ call.op = "getCellLabel"
  /\ result' = getCellLabel(call.cell)
  /\ pc' = "called"
  /\ UNCHANGED <<call, again, clock, state, config, out, gameVars>>

\* the label just made is parsed
ParseBack ==
  /\ pc = "called"
  /\ call.op = "getCellLabel"
  /\ again' = parseCellLabel(result)
  /\ pc' = "back"
  /\ UNCHANGED <<call, result, clock, state, config, out, gameVars>>

Parse ==
  /\ pc = "init"
  /\ call.op = "parseCellLabel"
  /\ result' = parseCellLabel(call.label)
  /\ pc' = "called"
  /\ UNCHANGED <<call, again, clock, state, config, out, gameVars>>

\* the cell just parsed is labelled
LabelBack ==
  /\ pc = "called"
  /\ call.op = "parseCellLabel"
  /\ result.ok
  /\ again' = getCellLabel(result.cell)
  /\ pc' = "back"
  /\ UNCHANGED <<call, result, clock, state, config, out, gameVars>>

Enumerate ==
  /\ pc = "init"
  /\ call.op = "getValidPlacements"
  /\ result' = getValidPlacements(call.startCell, call.shipSize)
  /\ pc' = "called"
  /\ UNCHANGED <<call, again, clock, state, config, out, gameVars>>

NextPlacement ==
  \/ Validate
  \/ Label
  \/ ParseBack
  \/ Parse
  \/ LabelBack
  \/ Enumerate

SpecPlacement == InitPlacement /\ [][NextPlacement]_vars

----------------------------------------------------------------------------
(* Claims *)

Terminal == {"complete", "cancelled"}

Called == pc # "init"

CallOn(status, type) ==
  Called /\ call.state.status = status /\ call.event.type = type

\* C1: complete and cancelled are absorbing: every call made on such a state,
\* whatever the event and the context, throws InvalidTransitionError and the
\* state (status, round, winners, cancelReason) stays as it was.
C1_TerminalAbsorbing ==
  [][state.status \in Terminal =>
       /\ state' = state
       /\ ~out'.ok
       /\ out'.error = "InvalidTransitionError"]_vars

C1_Witness == state.status \in Terminal /\ ~out.ok

Edges ==
  {<<"waiting", "waiting">>, <<"waiting", "active">>, <<"waiting", "cancelled">>,
   <<"active", "repositioning">>, <<"active", "complete">>,
   <<"repositioning", "repositioning">>, <<"repositioning", "active">>,
   <<"repositioning", "cancelled">>}

\* C2: every successful transition of a sequence started at createInitialState()
\* moves the status along a documented edge.
C2_DocumentedEdges ==
  [][out'.ok => <<state.status, state'.status>> \in Edges]_vars

C2_Witness == state.status = "complete" /\ state.round >= 2 /\ out.ok

\* C3: two calls of transition on the same state, event and context return the
\* same newState (deadline included) and the same sideEffects, whenever made.
C3_Deterministic == (pc = "recalled" /\ result.ok) => again = result

\* C5: waiting + PLAYER_JOINED on a snapshot without the joiner: when
\* players.length + 1 >= maxPlayers the game is active, round 1, no deadline, no
\* winners, with effects NOTIFY (join), NOTIFY (full), POST_TWEET, TRIGGER_SALVO;
\* otherwise the state is the input state and the only effect is one NOTIFY.
C5_PlayerJoined ==
  CallOn("waiting", "PLAYER_JOINED") =>
    LET n == Len(call.context.players) + 1
        max == call.context.config.maxPlayers
        join == [type |-> "NOTIFY_PLAYERS",
                 message |-> "Player joined! " \o ToString(n) \o "/" \o ToString(max)]
    IN
    /\ result.ok
    /\ IF n >= max
         THEN /\ result.newState.status = "active"
              /\ result.newState.round = 1
              /\ result.newState.deadline = Null
              /\ result.newState.winners = <<>>
              /\ EffectTypes(result) =
                   <<"NOTIFY_PLAYERS", "NOTIFY_PLAYERS", "POST_TWEET", "TRIGGER_SALVO">>
              /\ result.sideEffects[1] = join
              /\ result.sideEffects[2].message = "Game is full! Starting..."
         ELSE /\ result.newState = call.state
              /\ result.sideEffects = <<join>>

C5_Witness ==
  /\ CallOn("waiting", "PLAYER_JOINED")
  /\ Len(call.context.players) + 1 = call.context.config.maxPlayers
  /\ result.ok /\ result.newState.status = "active"

Settled == <<"PROCESS_PAYOUTS", "NOTIFY_PLAYERS", "POST_TWEET">>

\* C6: active + SALVO_COMPLETE with exactly one survivor completes the game in
\* the same round with that wallet as the only winner, and asks for
\* PROCESS_PAYOUTS{winners: [wallet]}, NOTIFY_PLAYERS, POST_TWEET in that order.
C6_SingleSurvivor ==
  (CallOn("active", "SALVO_COMPLETE") /\ Len(call.event.survivors) = 1) =>
    LET w == call.event.survivors[1] IN
    /\ result.ok
    /\ result.newState.status = "complete"
    /\ result.newState.round = call.state.round
    /\ result.newState.winners = <<w>>
    /\ EffectTypes(result) = Settled
    /\ result.sideEffects[1] = [type |-> "PROCESS_PAYOUTS", winners |-> <<w>>]

C6_Witness ==
  /\ CallOn("active", "SALVO_COMPLETE")
  /\ Len(call.event.survivors) = 1
  /\ call.state.round < call.context.config.maxRounds
  /\ Len(call.context.players) = 2
  /\ result.ok /\ result.newState.status = "complete"

\* the context players sunk in this round or still afloat, in context order
SunkNowOrAfloat(players, round) ==
  LET Keep(p) == p.isEliminated => p.eliminatedRound = <<round>> IN
  MapWallet(SelectSeq(players, Keep))

\* C7: active + SALVO_COMPLETE with no survivor completes the game; the winners
\* are the context players eliminated in the current round or not eliminated, in
\* context order, never a player eliminated in an earlier round; the effects are
\* PROCESS_PAYOUTS(winners), NOTIFY_PLAYERS, POST_TWEET.
C7_AllEliminated ==
  (CallOn("active", "SALVO_COMPLETE") /\ call.event.survivors = <<>>) =>
    LET players == call.context.players
        round == call.state.round
    IN
    /\ result.ok
    /\ result.newState.status = "complete"
    /\ result.newState.winners = SunkNowOrAfloat(players, round)
    /\ \A i \in 1..Len(players) :
         (players[i].isEliminated /\ players[i].eliminatedRound # <<round>>)
           => players[i].wallet \notin Range(result.newState.winners)
    /\ EffectTypes(result) = Settled
    /\ result.sideEffects[1] =
         [type |-> "PROCESS_PAYOUTS", winners |-> result.newState.winners]

C7_Witness ==
  /\ CallOn("active", "SALVO_COMPLETE")
  /\ call.event.survivors = <<>>
  /\ Len(call.context.players) = 2
  /\ call.context.players[1].eliminatedRound = <<call.state.round - 1>>
  /\ call.context.players[2].eliminatedRound = <<call.state.round>>
  /\ result.ok /\ result.newState.winners = <<call.context.players[2].wallet>>

\* C8: active + SALVO_COMPLETE with two or more survivors in a round >= maxRounds
\* completes the game with all the survivors as winners and the effects
\* PROCESS_PAYOUTS(survivors), NOTIFY_PLAYERS, POST_TWEET; repositioning is never
\* entered from a round >= maxRounds.
C8_MaxRounds ==
  CallOn("active", "SALVO_COMPLETE") =>
    /\ (Len(call.event.survivors) >= 2
        /\ call.state.round >= call.context.config.maxRounds) =>
         /\ result.ok
         /\ result.newState.status = "complete"
         /\ result.newState.winners = call.event.survivors
         /\ EffectTypes(result) = Settled
         /\ result.sideEffects[1] =
              [type |-> "PROCESS_PAYOUTS", winners |-> call.event.survivors]
    /\ (result.ok /\ result.newState.status = "repositioning") =>
         call.state.round < call.context.config.maxRounds

C8_Witness ==
  /\ CallOn("active", "SALVO_COMPLETE")
  /\ Len(call.event.survivors) >= 2
  /\ call.state.round = call.context.config.maxRounds
  /\ result.ok /\ result.newState.status = "complete"

\* C9: active + SALVO_COMPLETE with two or more survivors in a round < maxRounds
\* enters repositioning in the same round, with deadline = now +
\* repositionWindowMinutes minutes, no winners, and exactly the effects
\* NOTIFY_PLAYERS to the survivors, SCHEDULE_TIMEOUT(window in ms, REPOSITION_TIMEOUT).
C9_Repositioning ==
  (/\ CallOn("active", "SALVO_COMPLETE")
   /\ Len(call.event.survivors) >= 2
   /\ call.state.round < call.context.config.maxRounds) =>
    LET windowMs == call.context.config.repositionWindowMinutes * 60000 IN
    /\ result.ok
    /\ result.newState.status = "repositioning"
    /\ result.newState.round = call.state.round
    /\ result.newState.deadline = <<clock + windowMs>>
    /\ result.newState.winners = <<>>
    /\ EffectTypes(result) = <<"NOTIFY_PLAYERS", "SCHEDULE_TIMEOUT">>
    /\ result.sideEffects[1].wallets = call.event.survivors
    /\ result.sideEffects[2].durationMs = windowMs
    /\ result.sideEffects[2].event = [type |-> "REPOSITION_TIMEOUT"]

C9_Witness ==
  /\ CallOn("active", "SALVO_COMPLETE")
  /\ Len(call.event.survivors) >= 2
  /\ call.state.round < call.context.config.maxRounds
  /\ clock > 0
  /\ result.ok /\ result.newState.status = "repositioning"

NumAfloat(players) == Cardinality({i \in 1..Len(players) : ~players[i].isEliminated})

\* C10: waiting + DEADLINE_REACHED: with fewer than 2 players not eliminated the
\* game is cancelled (round 0, insufficient_players) with effects PROCESS_REFUNDS
\* of every context player, then NOTIFY_PLAYERS; with 2 or more it is active,
\* round 1, with effects NOTIFY_PLAYERS, POST_TWEET, TRIGGER_SALVO.
C10_DeadlineReached ==
  CallOn("waiting", "DEADLINE_REACHED") =>
    LET players == call.context.players IN
    /\ result.ok
    /\ IF NumAfloat(players) < 2
         THEN /\ result.newState.status = "cancelled"
              /\ result.newState.round = 0
              /\ result.newState.cancelReason = <<"insufficient_players">>
              /\ EffectTypes(result) = <<"PROCESS_REFUNDS", "NOTIFY_PLAYERS">>
              /\ result.sideEffects[1].wallets =
                   [i \in 1..Len(players) |-> players[i].wallet]
         ELSE /\ result.newState.status = "active"
              /\ result.newState.round = 1
              /\ EffectTypes(result) =
                   <<"NOTIFY_PLAYERS", "POST_TWEET", "TRIGGER_SALVO">>

C10_Witness ==
  /\ CallOn("waiting", "DEADLINE_REACHED")
  /\ Len(call.context.players) = 2
  /\ NumAfloat(call.context.players) = 1
  /\ result.ok /\ result.newState.status = "cancelled"

\* C4: in a game whose players all came in through joinGame, right after a join
\* the game is still waiting if fewer than maxPlayers players are recorded, and
\* is active in round 1 with a TRIGGER_SALVO effect if maxPlayers are recorded.
C4_JoinFillsGame ==
  (~monitored /\ dispatched.event \in {"PLAYER_JOINED", "MAX_PLAYERS_REACHED"}) =>
    IF Len(playerRecords) < config.maxPlayers
      THEN game.status = "waiting"
      ELSE /\ game.status = "active"
           /\ game.round = 1
           /\ "TRIGGER_SALVO" \in Range(dispatched.sideEffects)

\* C11: waiting + ADMIN_FORCE_START: with fewer than 2 context players not
\* eliminated the call throws InvalidTransitionError (status waiting, no new
\* state); with 2 or more the result is active, round 1, with effects exactly
\* NOTIFY_PLAYERS then TRIGGER_SALVO (no POST_TWEET).
C11_AdminForceStart ==
  CallOn("waiting", "ADMIN_FORCE_START") =>
    IF NumAfloat(call.context.players) < 2
      THEN /\ ~result.ok
           /\ result.error.name = "InvalidTransitionError"
           /\ result.error.currentStatus = "waiting"
           /\ result.error.event = call.event
      ELSE /\ result.ok
           /\ result.newState = GameState("active", 1, Null, <<>>, Null)
           /\ EffectTypes(result) = <<"NOTIFY_PLAYERS", "TRIGGER_SALVO">>

C11_Witness ==
  /\ CallOn("waiting", "ADMIN_FORCE_START")
  /\ Len(call.context.players) = 2
  /\ NumAfloat(call.context.players) = 1
  /\ ~result.ok

\* C12: ADMIN_CANCEL in waiting or repositioning gives cancelled with reason
\* admin_cancelled, no deadline, no winners and the round of the input state,
\* with effects PROCESS_REFUNDS of every context player (eliminated ones
\* included), then NOTIFY_PLAYERS.
C12_AdminCancel ==
  (Called /\ call.state.status \in {"waiting", "repositioning"}
          /\ call.event.type = "ADMIN_CANCEL") =>
    /\ result.ok
    /\ result.newState =
         GameState("cancelled", call.state.round, Null, <<>>, Some("admin_cancelled"))
    /\ EffectTypes(result) = <<"PROCESS_REFUNDS", "NOTIFY_PLAYERS">>
    /\ result.sideEffects[1].wallets = MapWallet(call.context.players)

C12_Witness ==
  /\ CallOn("repositioning", "ADMIN_CANCEL")
  /\ Len(call.context.players) = 2
  /\ NumAfloat(call.context.players) = 1
  /\ result.ok
  /\ Len(result.sideEffects[1].wallets) = 2

\* C13: waiting + MAX_PLAYERS_REACHED gives active, round 1, for every context
\* (also one with no player or a single player), with effects exactly
\* NOTIFY_PLAYERS, POST_TWEET, TRIGGER_SALVO.
C13_MaxPlayersReached ==
  CallOn("waiting", "MAX_PLAYERS_REACHED") =>
    /\ result.ok
    /\ result.newState = GameState("active", 1, Null, <<>>, Null)
    /\ EffectTypes(result) = <<"NOTIFY_PLAYERS", "POST_TWEET", "TRIGGER_SALVO">>

C13_Witness ==
  /\ CallOn("waiting", "MAX_PLAYERS_REACHED")
  /\ call.context.players = <<>>
  /\ result.ok
  /\ result.newState.status = "active"

\* the step in which the reposition timer fires on a repositioning game
TimeoutStep ==
  /\ game.status = "repositioning"
  /\ timers.reposition
  /\ ~timers'.reposition
  /\ dispatched'.event = "REPOSITION_TIMEOUT"

\* C14: repositioning + REPOSITION_TIMEOUT always gives active, round + 1, no
\* deadline, with effects exactly NOTIFY_PLAYERS then TRIGGER_SALVO, and leaves
\* every player's recorded position as it was.
C14_RepositionTimeout ==
  [][TimeoutStep =>
       /\ dispatched'.ok
       /\ game' = GameState("active", game.round + 1, Null, <<>>, Null)
       /\ dispatched'.sideEffects = <<"NOTIFY_PLAYERS", "TRIGGER_SALVO">>
       /\ playerRecords' = playerRecords]_vars

C14_Witness ==
  /\ dispatched.event = "REPOSITION_TIMEOUT"
  /\ game.status = "active"
  /\ game.round = 2
  /\ \E i \in 1..Len(playerRecords) :
       ~playerRecords[i].isEliminated /\ playerRecords[i].position # <<>>

Afloat(players) == {i \in 1..Len(players) : ~players[i].isEliminated}

\* C15: repositioning + REPOSITION_SUBMITTED{wallet}: when every context player
\* not eliminated has a non-empty position or is the event's wallet, the result
\* is active, round + 1, no deadline, with effects NOTIFY_PLAYERS then
\* TRIGGER_SALVO; otherwise newState is the input state and the effects are
\* one NOTIFY_PLAYERS.
C15_RepositionSubmitted ==
  CallOn("repositioning", "REPOSITION_SUBMITTED") =>
    LET players == call.context.players IN
    /\ result.ok
    /\ IF \A i \in Afloat(players) :
            players[i].position # <<>> \/ players[i].wallet = call.event.wallet
         THEN /\ result.newState =
                   GameState("active", call.state.round + 1, Null, <<>>, Null)
              /\ EffectTypes(result) = <<"NOTIFY_PLAYERS", "TRIGGER_SALVO">>
         ELSE /\ result.newState = call.state
              /\ EffectTypes(result) = <<"NOTIFY_PLAYERS">>

C15_Witness ==
  /\ CallOn("repositioning", "REPOSITION_SUBMITTED")
  /\ Len(call.context.players) = 2
  /\ \E i \in Afloat(call.context.players) :
       /\ call.context.players[i].position = <<>>
       /\ call.context.players[i].wallet = call.event.wallet
  /\ result.ok
  /\ result.newState.status = "active"

\* the events each status has a case for
Documented(status) ==
  CASE status = "waiting" -> {"PLAYER_JOINED", "MAX_PLAYERS_REACHED", "DEADLINE_REACHED",
                              "ADMIN_FORCE_START", "ADMIN_CANCEL"}
    [] status = "active" -> {"SALVO_COMPLETE"}
    [] status = "repositioning" -> {"REPOSITION_SUBMITTED", "REPOSITION_TIMEOUT",
                                    "ADMIN_CANCEL"}
    [] OTHER -> {}

\* C16: in waiting, active and repositioning, an event the status has no case
\* for throws InvalidTransitionError carrying the current status and the event,
\* and no state is returned.
C16_UndocumentedThrows ==
  (Called /\ call.state.status \in {"waiting", "active", "repositioning"}
          /\ call.event.type \notin Documented(call.state.status)) =>
    /\ ~result.ok
    /\ result.error = [name |-> "InvalidTransitionError",
                       currentStatus |-> call.state.status, event |-> call.event]

C16_Witness ==
  /\ CallOn("waiting", "REPOSITION_TIMEOUT")
  /\ ~result.ok
  /\ result.error.currentStatus = "waiting"

\* in list, every effect of type a stands before every effect of type b
Precedes(list, a, b) ==
  \A i, j \in 1..Len(list) : (list[i] = a /\ list[j] = b) => i < j

\* C17: in the effect list of every successful dispatch NOTIFY_PLAYERS stands
\* before POST_TWEET and POST_TWEET before TRIGGER_SALVO, TRIGGER_SALVO being
\* last when present, and dispatchEvent starts the effects one after the other
\* in the order of that list.
C17_EffectOrder ==
  dispatched.ok =>
    LET list == dispatched.sideEffects IN
    /\ Precedes(list, "NOTIFY_PLAYERS", "POST_TWEET")
    /\ Precedes(list, "POST_TWEET", "TRIGGER_SALVO")
    /\ Precedes(list, "NOTIFY_PLAYERS", "TRIGGER_SALVO")
    /\ \A i \in 1..Len(list) : list[i] = "TRIGGER_SALVO" => i = Len(list)
    /\ Len(dispatched.started) <= Len(list)
    /\ dispatched.started = SubSeq(list, 1, Len(dispatched.started))

C17_Witness ==
  /\ dispatched.ok
  /\ dispatched.sideEffects = <<"NOTIFY_PLAYERS", "POST_TWEET", "TRIGGER_SALVO">>
  /\ dispatched.started = dispatched.sideEffects
  /\ timers.salvo = 1

\* C18: every state reached from createInitialState() by successful transitions
\* is well-formed: winners only in complete, a cancelReason exactly in
\* cancelled, a deadline only in waiting or repositioning, round 0 in waiting
\* and at least 1 in active, repositioning and complete.
C18_WellFormed ==
  /\ state.winners # <<>> => state.status = "complete"
  /\ state.cancelReason # Null <=> state.status = "cancelled"
  /\ state.deadline # Null => state.status \in {"waiting", "repositioning"}
  /\ state.status = "waiting" => state.round = 0
  /\ state.status \in {"active", "repositioning", "complete"} => state.round >= 1

C18_Witness ==
  /\ state.status = "active"
  /\ state.round = 2
  /\ state.deadline = Null
  /\ out.ok

IsSortedAscending(s) == \A i \in 1..(Len(s) - 1) : s[i] < s[i + 1]

\* C19: for a valid seed and a count in 1..25 generateShots returns exactly
\* count cells, pairwise distinct, all in 0..24, in ascending order, and a
\* second call with the same seed and count returns the same sequence.
C19_GenerateShots ==
  /\ pc # "init" =>
       /\ result.ok
       /\ Len(result.shots) = call.count
       /\ Cardinality(Range(result.shots)) = call.count
       /\ Range(result.shots) \subseteq 0..(TOTAL_CELLS - 1)
       /\ IsSortedAscending(result.shots)
  /\ pc = "recalled" => again = result

C19_Witness ==
  /\ pc = "recalled"
  /\ call.count = TOTAL_CELLS
  /\ result.ok
  /\ result.shots = [i \in 1..TOTAL_CELLS |-> i - 1]
  /\ again = result

\* the cells picked by the first k draws of the call, in the order drawn
DrawnBefore(k) == drawShots(toLowerCase(call.oreHash), k, 0, <<>>, {})

\* C20: at each draw of a call, with r cells not yet selected, the residues
\* 0..r-1 of the chunk value select r different cells, namely all the cells
\* not yet selected (the highest-numbered one included).
C20_DrawBijection ==
  pc # "init" =>
    \A k \in 0..(call.count - 1) :
      LET used == Range(DrawnBefore(k))
          remaining == (0..(TOTAL_CELLS - 1)) \ used
          r == Cardinality(remaining) IN
      /\ {findCell(used, t, 0, 0) : t \in 0..(r - 1)} = remaining
      /\ \A t1, t2 \in 0..(r - 1) :
           t1 # t2 => findCell(used, t1, 0, 0) # findCell(used, t2, 0, 0)

BadCount(count) == count < 1 \/ count > 25

\* exactly 64 characters, each a digit or a letter a..f in either case
HexSeed(seed) ==
  /\ Len(seed) = 64
  /\ \A i \in 1..Len(seed) : seed[i] \in (48..57) \cup (65..70) \cup (97..102)

\* C21: generateShots throws, returning no cells, when count < 1 or count > 25
\* and when the seed is not 64 hexadecimal characters in either case;
\* processSalvo throws in the same cases and returns nothing.
C21_InvalidInputs ==
  (Called /\ (BadCount(call.shotCount) \/ ~HexSeed(call.oreHash))) =>
    /\ ~generateShots(call.oreHash, call.shotCount).ok
    /\ ~result.ok
    /\ DOMAIN result = {"ok", "error"}

C21_Witness ==
  /\ Called
  /\ call.shotCount = 3
  /\ Len(call.oreHash) = 64
  /\ call.oreHash[1] = 103
  /\ ~result.ok

WalletsOf(players, flag) ==
  {players[i].wallet : i \in {j \in 1..Len(players) : players[j].isEliminated = flag}}

\* C22: in a processSalvo result a player eliminated on input is in none of
\* hits, eliminations and survivors, and every other player is in exactly one
\* of eliminations and survivors, once.
C22_EliminatedSkipped ==
  (Called /\ result.ok) =>
    LET gone == WalletsOf(call.players, TRUE)
        live == WalletsOf(call.players, FALSE)
        out1 == Range(result.eliminations)
        in1 == Range(result.survivors) IN
    /\ gone \cap (DOMAIN result.hits \cup out1 \cup in1) = {}
    /\ out1 \cup in1 = live
    /\ out1 \cap in1 = {}
    /\ Len(result.eliminations) + Len(result.survivors) = Cardinality(live)

C22_Witness ==
  /\ Called
  /\ result.ok
  /\ Len(call.players) = 2
  /\ call.players[1].isEliminated
  /\ call.players[1].position = <<0, 1>>
  /\ 0 \in Range(result.shots)
  /\ result.survivors = <<call.players[2].wallet>>

PlayerOf(wallet) == CHOOSE q \in Range(call.players) : q.wallet = wallet

\* C23: for each player not eliminated the new hits are exactly the cells of
\* its position that are among the shots and not among its hits, each once,
\* and hits has an entry for the wallet exactly when there is such a cell.
C23_NewHits ==
  (Called /\ result.ok) =>
    \A w \in WalletsOf(call.players, FALSE) :
      LET q == PlayerOf(w)
          fresh == (Range(q.position) \cap Range(result.shots)) \ Range(q.hits) IN
      /\ w \in DOMAIN result.hits <=> fresh # {}
      /\ w \in DOMAIN result.hits =>
           /\ Range(result.hits[w]) = fresh
           /\ Len(result.hits[w]) = Cardinality(fresh)

C23_Witness ==
  /\ Called
  /\ result.ok
  /\ Len(call.players) = 1
  /\ call.players[1].position = <<0, 1>>
  /\ call.players[1].hits = <<0>>
  /\ result.shots = <<0, 1, 2>>
  /\ result.hits[call.players[1].wallet] = <<1>>

\* C24: a player not eliminated is in eliminations iff the number of its hits
\* plus the number of its new hits is at least the number of its cells, and in
\* survivors otherwise.
C24_EliminationRule ==
  (Called /\ result.ok) =>
    \A w \in WalletsOf(call.players, FALSE) :
      LET q == PlayerOf(w)
          new == IF w \in DOMAIN result.hits THEN Len(result.hits[w]) ELSE 0 IN
      IF Len(q.hits) + new >= Len(q.position)
        THEN w \in Range(result.eliminations) /\ w \notin Range(result.survivors)
        ELSE w \in Range(result.survivors) /\ w \notin Range(result.eliminations)

C24_Witness ==
  /\ Called
  /\ result.ok
  /\ Len(call.players) = 2
  /\ call.players[1].hits = <<0>>
  /\ call.players[1].position = <<0, 1>>
  /\ call.players[2].hits = <<>>
  /\ result.shots = <<0, 5, 10>>
  /\ result.survivors = MapWallet(call.players)

\* C25: through any sequence of salvos and repositions, a player recorded as
\* eliminated has every cell of its recorded position among its recorded hits
\* (an eliminated player's position and hits no longer change, so this is the
\* state at the moment of elimination).
C25_EliminatedWhenCovered ==
  \A i \in 1..Len(playerRecords) :
    playerRecords[i].isEliminated =>
      Range(playerRecords[i].position) \subseteq Range(playerRecords[i].hits)

\* C26: in every step of the game each recorded player keeps its row, its hits
\* lose no cell and hold no cell twice, a player that was eliminated stays
\* eliminated, and its eliminatedRound stays what it was.
C26_MonotoneDamage ==
  [][/\ Len(playerRecords') >= Len(playerRecords)
     /\ \A i \in 1..Len(playerRecords) :
          LET before == playerRecords[i]
              after == playerRecords'[i] IN
          /\ after.wallet = before.wallet
          /\ Range(before.hits) \subseteq Range(after.hits)
          /\ Cardinality(Range(after.hits)) = Len(after.hits)
          /\ before.isEliminated =>
               after.isEliminated /\ after.eliminatedRound = before.eliminatedRound]_vars

C26_Witness ==
  /\ Len(rounds) = 2
  /\ \E i, j \in 1..Len(playerRecords) :
       /\ playerRecords[i].hits = <<0, 1>>
       /\ playerRecords[i].eliminatedRound = Some(2)
       /\ playerRecords[j].eliminatedRound = Some(1)


\* C27: in every step of the game, the position of a recorded player changes
\* only for one player at a time, only while the game is repositioning, only if
\* that player is not eliminated and has a cell of its position that is not in
\* its hits, and only to cells that validatePlacement accepts for the game's
\* ship size and that are as many as the old position; every other step,
\* rejected reposition requests included, leaves every recorded position as
\* it was.
C27_PositionReplaced ==
  [][\A i \in 1..Len(playerRecords) :
       LET before == playerRecords[i]
           after == playerRecords'[i] IN
       after.position # before.position =>
         /\ game.status = "repositioning"
         /\ ~before.isEliminated
         /\ \E cell \in Range(before.position) : cell \notin Range(before.hits)
         /\ validatePlacement(after.position, config.shipSize).ok
         /\ Len(after.position) = Len(before.position)
         /\ \A j \in 1..Len(playerRecords) :
              j # i => playerRecords'[j].position = playerRecords[j].position]_vars

C27_Witness ==
  /\ game.status = "repositioning"
  /\ \E i \in 1..Len(playerRecords) :
       /\ playerRecords[i].position = <<1, 2>>
       /\ playerRecords[i].hits = <<0>>
       /\ ~playerRecords[i].isEliminated


\* the run of n cells from cell a in steps of d
Run(a, d, n) == {a + k * d : k \in 0..(n - 1)}

\* the cells are n different cells of the grid that form a run within one row
RowRun(cells, n) ==
  /\ Len(cells) = n
  /\ \E a \in CellIndices :
       /\ (a % GRID_SIZE) + n <= GRID_SIZE
       /\ Range(cells) = Run(a, 1, n)

\* the cells are n different cells of the grid that form a run within one column
ColumnRun(cells, n) ==
  /\ Len(cells) = n
  /\ \E a \in CellIndices :
       /\ a + (n - 1) * GRID_SIZE < TOTAL_CELLS
       /\ Range(cells) = Run(a, GRID_SIZE, n)

IsAscending(s) == \A i \in 2..Len(s) : s[i - 1] < s[i]

\* C28: for a ship size of 1, 2 or 3 and any sequence of integers,
\* validatePlacement accepts exactly the sequences of shipSize different cells
\* of the grid that are one cell (size 1), a run within one row or a run within
\* one column; it then returns the same cells in ascending order with the
\* orientation single, horizontal or vertical; any other sequence is answered
\* with a PlacementError.
C28_ValidatePlacement ==
  (pc = "called" /\ call.op = "validatePlacement") =>
    LET cells == call.cells
        n == call.shipSize IN
    IF RowRun(cells, n) \/ ColumnRun(cells, n)
      THEN /\ result.ok
           /\ Len(result.cells) = n
           /\ Range(result.cells) = Range(cells)
           /\ IsAscending(result.cells)
           /\ result.orientation = IF n = 1 THEN "single"
                                   ELSE IF RowRun(cells, n) THEN "horizontal"
                                   ELSE "vertical"
      ELSE /\ ~result.ok
           /\ result.error.name = "PlacementError"

C28_Witness ==
  /\ pc = "called"
  /\ call.op = "validatePlacement"
  /\ call.cells = <<11, 1, 6>>
  /\ call.shipSize = 3
  /\ result = [ok |-> TRUE, cells |-> <<1, 6, 11>>, orientation |-> "vertical"]


\* a letter A..E or a..e followed by a digit 1..5
IsLabel(s) ==
  /\ Len(s) = 2
  /\ s[1] \in (65..69) \cup (97..101)
  /\ s[2] \in 49..53

\* C29: cell labels round-trip.  The label of a cell c of the grid is the
\* letter of its row (c div 5, from A) and the digit of its column plus one
\* (c mod 5 + 1), and parsing it gives c back; parsing a label made of a letter
\* A..E in either case and a digit 1..5 and labelling the result gives the
\* label in upper case; the labels of two different cells are different.
C29_LabelRoundTrip ==
  /\ (pc = "back" /\ call.op = "getCellLabel") =>
       /\ result = <<65 + (call.cell \div 5), 49 + (call.cell % 5)>>
       /\ again = [ok |-> TRUE, cell |-> call.cell]
  /\ (pc = "called" /\ call.op = "parseCellLabel" /\ IsLabel(call.label)) => result.ok
  /\ (pc = "back" /\ call.op = "parseCellLabel" /\ IsLabel(call.label)) =>
       again = toUpperCase(call.label)
  /\ (pc = "called" /\ call.op = "getCellLabel") =>
       \A other \in CellIndices : other # call.cell => getCellLabel(other) # result

\* the label "e3" has been parsed to cell 22 and labelled "E3"
C29_Witness ==
  /\ pc = "back"
  /\ call.op = "parseCellLabel"
  /\ call.label = <<101, 51>>
  /\ result = [ok |-> TRUE, cell |-> 22]
  /\ again = <<69, 51>>

\* the placements of n cells that validatePlacement accepts as they are, sorted
\* ascending, and that begin or end at the cell
PlacementsAt(cell, n) ==
  {s \in [1..n -> CellIndices] :
     /\ validatePlacement(s, n).ok
     /\ validatePlacement(s, n).cells = s
     /\ s[1] = cell \/ s[n] = cell}

\* C30: for a cell of the grid and a ship size of 1, 2 or 3, getValidPlacements
\* returns, each once, exactly the ascending placements that validatePlacement
\* accepts for that size and that begin or end at the cell; for size 1 it
\* returns the one placement of the cell alone.
C30_ValidPlacements ==
  (pc = "called" /\ call.op = "getValidPlacements") =>
    /\ Range(result) = PlacementsAt(call.startCell, call.shipSize)
    /\ Cardinality(Range(result)) = Len(result)
    /\ \A i \in 1..Len(result) : IsAscending(result[i])
    /\ call.shipSize = 1 => result = <<<<call.startCell>>>>

\* from the middle of the grid a ship of three cells can go all four ways
C30_Witness ==
  /\ pc = "called"
  /\ call.op = "getValidPlacements"
  /\ call.startCell = 12
  /\ call.shipSize = 3
  /\ result = <<<<12, 13, 14>>, <<10, 11, 12>>, <<12, 17, 22>>, <<2, 7, 12>>>>


\* C32: a REPOSITION_SUBMITTED from one of two or more players that are not
\* eliminated, all of them holding a non-empty position, leaves the game in
\* repositioning with the state as it was: the window stays open for the
\* others.
C32_WindowForEverySurvivor ==
  LET players == call.context.players IN
  ( /\ CallOn("repositioning", "REPOSITION_SUBMITTED")
    /\ Cardinality(Afloat(players)) >= 2
    /\ \A i \in Afloat(players) : players[i].position # <<>>
    /\ \E i \in Afloat(players) : players[i].wallet = call.event.wallet )
  => (result.ok /\ result.newState = call.state)


\* a step that delivers one of the events that end a reposition window
EndsWindow ==
  \/ DeliverTimeout
  \/ Deliver(Plain("ADMIN_CANCEL"))
  \/ \E w \in Wallets : Deliver(RepositionSubmitted(w, <<5, 6>>))

NewlySettled == SubSeq(settlements', Len(settlements) + 1, Len(settlements'))

\* C33: over any sequence of events of one game at most one settlement effect
\* is ever asked for; the step that enters complete asks for one
\* PROCESS_PAYOUTS whose winners are the winners of the new state, the step
\* that enters cancelled asks for one PROCESS_REFUNDS whose wallets are the
\* wallets of all players of the call's context, and no other step asks for a
\* settlement.
C33_SettledOnce ==
  /\ [](Len(settlements) <= 1)
  /\ [][IF state.status # "complete" /\ state'.status = "complete"
          THEN /\ Len(NewlySettled) = 1
               /\ NewlySettled[1].effect = ProcessPayouts(state'.winners)
        ELSE IF state.status # "cancelled" /\ state'.status = "cancelled"
          THEN /\ Len(NewlySettled) = 1
               /\ NewlySettled[1].effect = ProcessRefunds(NewlySettled[1].wallets)
        ELSE NewlySettled = <<>>]_vars

\* a game cancelled by the admin in a reposition window, both players refunded
C33_Witness ==
  /\ state.status = "cancelled"
  /\ state.round = 1
  /\ settlements = <<[effect |-> ProcessRefunds(<<"p1", "p2">>), wallets |-> <<"p1", "p2">>]>>


\* C34: with maxRounds >= 1, in every state reached from createInitialState()
\* the round is at most maxRounds; a step never lowers the round; it raises
\* it only by one, only into active, and only from waiting (0 to 1) or from
\* repositioning; steps into repositioning, complete and cancelled keep it.
C34_Rounds ==
  /\ [](state.round <= config.maxRounds)
  /\ [][/\ state'.round >= state.round
        /\ state'.round # state.round =>
             /\ state'.round = state.round + 1
             /\ state'.status = "active"
             /\ \/ state.status = "waiting" /\ state.round = 0
                \/ state.status = "repositioning" /\ state.round >= 1
        /\ (state.status = "waiting" /\ state'.status = "active") => state'.round = 1
        /\ (state'.status # state.status
            /\ state'.status \in {"repositioning", "complete", "cancelled"})
             => state'.round = state.round]_vars

\* the last round of the longest game has begun
C34_Witness ==
  /\ state.status = "active"
  /\ state.round = MaxRound
  /\ config.maxRounds = MaxRound
  /\ Len(rounds) = MaxRound - 1


\* how many of the effects asked for by the step's call have the type
EffectCount(type) ==
  Cardinality({i \in 1..Len(out'.sideEffects) : out'.sideEffects[i] = type})

\* C35: a step asks for TRIGGER_SALVO exactly when it takes the game from
\* waiting or repositioning to active, and then once, as its last effect; and
\* it asks for SCHEDULE_TIMEOUT exactly when it takes the game into
\* repositioning.
C35_TriggerAndTimeout ==
  [][LET effects == out'.sideEffects IN
     /\ IF state.status \in {"waiting", "repositioning"} /\ state'.status = "active"
          THEN /\ EffectCount("TRIGGER_SALVO") = 1
               /\ effects[Len(effects)] = "TRIGGER_SALVO"
          ELSE EffectCount("TRIGGER_SALVO") = 0
     /\ IF state.status # "repositioning" /\ state'.status = "repositioning"
          THEN EffectCount("SCHEDULE_TIMEOUT") = 1
          ELSE EffectCount("SCHEDULE_TIMEOUT") = 0]_vars

\* the join that fills the game has started it
C35_Witness ==
  /\ state.status = "active"
  /\ state.round = 1
  /\ out.sideEffects = <<"NOTIFY_PLAYERS", "NOTIFY_PLAYERS", "POST_TWEET", "TRIGGER_SALVO">>


\* C36: in a game run by the game service, whenever the status is complete the
\* winners are at least one, each is the wallet of a recorded player of the
\* game, and none was eliminated in a round before the final one; and no
\* payout was ever asked for with no winners.
C36_Winners ==
  /\ game.status = "complete" =>
       /\ game.winners # <<>>
       /\ \A i \in 1..Len(game.winners) :
            /\ Joined(game.winners[i])
            /\ getPlayer(game.winners[i]).isEliminated =>
                 getPlayer(game.winners[i]).eliminatedRound = Some(game.round)
  /\ \A i \in 1..Len(settlements) :
       settlements[i].type = "PROCESS_PAYOUTS" => settlements[i].wallets # <<>>

\* both ships were sunk by the salvo of round 2 and the pot is split
C36_Witness ==
  /\ game.status = "complete"
  /\ game.round = 2
  /\ Len(game.winners) = 2
  /\ \A i \in 1..Len(game.winners) :
       getPlayer(game.winners[i]).eliminatedRound = Some(2)
  /\ settlements = <<[type |-> "PROCESS_PAYOUTS", wallets |-> game.winners]>>


\* C37: after any salvos and repositions of a game, every recorded player that
\* is not eliminated has fewer hits than its position has cells, has a cell of
\* its position that is not among its hits, and is allowed to reposition by
\* canPlayerReposition.
C37_SurvivorsCanMove ==
  \A i \in 1..Len(playerRecords) :
    LET q == playerRecords[i] IN
    ~q.isEliminated =>
      /\ Len(q.hits) < Len(q.position)
      /\ \E cell \in Range(q.position) : cell \notin Range(q.hits)
      /\ canPlayerReposition(q).canReposition

\* in the window after round 1 a ship hit once has moved off the cell that was hit
C37_Witness ==
  /\ game.status = "repositioning"
  /\ \E i \in 1..Len(playerRecords) :
       /\ playerRecords[i].position = <<5, 6>>
       /\ playerRecords[i].hits = <<0>>
       /\ ~playerRecords[i].isEliminated
       /\ canPlayerReposition(playerRecords[i]).unhitCells = <<5, 6>>


\* C38: a game that is still waiting has fewer recorded players than
\* maxPlayers: the handler that records the last player, in the join route or
\* in the payment monitor, starts the game before it returns.
C38_FullGameStarts ==
  game.status = "waiting" => Len(playerRecords) < config.maxPlayers

\* the rounds rows carry pairwise different round numbers
OneRecordPerRound ==
  \A i, j \in 1..Len(rounds) : rounds[i].roundNumber = rounds[j].roundNumber => i = j

\* a step that writes a rounds row adds one row, for the round of a game that is
\* active, and dispatches SALVO_COMPLETE; no other step's SALVO_COMPLETE moves
\* the game
SalvoRecordedOnce ==
  /\ rounds' # rounds =>
       /\ game.status = "active"
       /\ rounds' = Append(rounds, rounds'[Len(rounds')])
       /\ rounds'[Len(rounds')].roundNumber = game.round
       /\ dispatched'.event = "SALVO_COMPLETE"
  /\ (game' # game /\ dispatched'.event = "SALVO_COMPLETE") => rounds' # rounds

\* a timer or salvo callback fires on a game that has left the status it was
\* scheduled for
FiresLate ==
  \/ timers.deadline /\ ~timers'.deadline /\ game.status # "waiting"
  \/ timers.reposition /\ ~timers'.reposition /\ game.status # "repositioning"
  \/ timers'.salvo < timers.salvo /\ game.status # "active"

\* C39: whatever the order of joins, admin calls, salvo callbacks and timer
\* callbacks, each round number has at most one rounds row and one
\* SALVO_COMPLETE dispatch, and a callback that fires after the game has left
\* the status it was scheduled for dispatches nothing and writes nothing.
C39_OneSalvoPerRound ==
  /\ []OneRecordPerRound
  /\ [][/\ SalvoRecordedOnce
        /\ FiresLate => /\ dispatched' = NoDispatch
                        /\ game' = game
                        /\ rounds' = rounds
                        /\ playerRecords' = playerRecords
                        /\ settlements' = settlements]_vars

C39_Witness ==
  /\ Len(rounds) = 2
  /\ rounds[1].roundNumber = 1
  /\ rounds[2].roundNumber = 2
  /\ game.status = "complete"
  /\ ~timers.deadline
  /\ dispatched = NoDispatch

\* C40: every change of the persisted game state is transition applied to the
\* state persisted just before, on the rows as the handler left them, and a
\* dispatch in which transition throws leaves the state as it was and starts
\* no effect.
C40_SerialTransitions ==
  [][/\ game' # game =>
          \E event \in Events :
            LET r == transition(game, event, [config |-> config, players |-> playerRecords'],
                                clock) IN
            r.ok /\ game' = r.newState /\ dispatched'.event = event.type /\ dispatched'.ok
     /\ (~dispatched'.ok /\ dispatched' # dispatched) =>
          /\ game' = game
          /\ settlements' = settlements
          /\ inflight' = inflight
          /\ timers'.salvo <= timers.salvo
          /\ timers'.reposition => timers.reposition]_vars

C40_Witness ==
  /\ ~dispatched.ok
  /\ dispatched.event = "ADMIN_FORCE_START"
  /\ game.status = "active"
  /\ game.round = 2
  /\ Len(rounds) = 1
  /\ timers.salvo = 1

====
